---- MODULE Spec2Model ----
(***************************************************************************)
(* Model of the linear-cli-agents issue commands that mutate label sets    *)
(* and run batches: `issues bulk-update`, `issues bulk-label`,             *)
(* `issues add-labels` and `issues remove-labels`; of `relations create`;  *)
(* of the config store, the `config` commands and two processes that write *)
(* the config file at the same time; and of `setup`.                       *)
(*                                                                         *)
(* A flag value is a string, modelled as a sequence of one-character       *)
(* strings.  An optional value is a sequence of length 0 (absent,          *)
(* undefined, null) or 1 (present).  Every `await` of the source is a      *)
(* separate step, so that the continuations of the per-item closures       *)
(* handed to Promise.all interleave in every order.                        *)
(***************************************************************************)
EXTENDS Integers, Sequences, FiniteSets, TLC

\* ------------------------------------------------------------------ bounds
MaxIdsLen == 3        \* longest --ids value, in characters
MaxItems == 2         \* most tokens a --ids value may hold
MaxLabelFlagLen == 3  \* longest label flag value, in characters
MaxShortFlagLen == 1  \* longest value of the other label flag when one is at full length
MaxCommands == 3      \* most commands run one after the other in a shell
MaxClaudeLen == 4     \* longest CLAUDE.md a first run may find, in tokens

\* ------------------------------------------------------------ option type
None == <<>>
Some(v) == <<v>>
IsSome(o) == Len(o) = 1
Get(o) == o[1]

\* --------------------------------------------------------------- strings
IdChars == {"u", ",", " "}
LabelChars == {"x", "y", ","}

Str(chars, n) == UNION {[1..k -> chars] : k \in 0..n}

Includes(seq, x) == \E i \in DOMAIN seq : seq[i] = x

IndexOfComma(s) ==
    IF Includes(s, ",") THEN CHOOSE i \in DOMAIN s : s[i] = "," /\ \A j \in 1..(i - 1) : s[j] # ","
    ELSE 0

\* String.prototype.split(','): the empty string yields one empty piece.
RECURSIVE SplitComma(_)
SplitComma(s) ==
    IF IndexOfComma(s) = 0 THEN <<s>>
    ELSE <<SubSeq(s, 1, IndexOfComma(s) - 1)>> \o SplitComma(SubSeq(s, IndexOfComma(s) + 1, Len(s)))

\* String.prototype.trim()
RECURSIVE Trim(_)
Trim(s) ==
    IF s = <<>> THEN s
    ELSE IF Head(s) = " " THEN Trim(Tail(s))
    ELSE IF s[Len(s)] = " " THEN Trim(SubSeq(s, 1, Len(s) - 1))
    ELSE s

\* Mutant of ParseList: an empty flag value yields no token at all.
ParseListSkipEmpty(s) ==
    IF s = <<>> THEN <<>> ELSE [i \in 1..Len(SplitComma(s)) |-> Trim(SplitComma(s)[i])]

\* flag.split(',').map((id) => id.trim())
ParseList(s) == [i \in 1..Len(SplitComma(s)) |-> Trim(SplitComma(s)[i])]

NumCommas(s) == Cardinality({i \in DOMAIN s : s[i] = ","})

NoDuplicates(seq) == \A i, j \in DOMAIN seq : seq[i] = seq[j] => i = j

AsSet(seq) == {seq[i] : i \in DOMAIN seq}

\* [...new Set(seq)]: first occurrences, in order
RECURSIVE Dedup(_)
Dedup(seq) ==
    IF seq = <<>> THEN <<>>
    ELSE IF Includes(SubSeq(seq, 1, Len(seq) - 1), seq[Len(seq)]) THEN Dedup(SubSeq(seq, 1, Len(seq) - 1))
    ELSE Append(Dedup(SubSeq(seq, 1, Len(seq) - 1)), seq[Len(seq)])


\* ------------------------------------------------------------- the world
\* Issue IDs known to the remote service, and the canonical identifier the
\* service reports for each (issue.identifier).
IssueIds == {<<"u">>, <<"v">>}
IssueIdentifier(id) == IF id = <<"u">> THEN <<"A", "-", "1">> ELSE <<"A", "-", "2">>

Labels == {<<"x">>, <<"y">>}

\* Label lists the service can hold for an issue: no label twice.
LabelSeqs == {l \in UNION {[1..k -> Labels] : k \in 0..2} : NoDuplicates(l)}

\* What a rejected promise of the service carries: an Error with a message, or
\* another value.
Throwables == {[isError |-> TRUE, message |-> "boom"], [isError |-> FALSE, message |-> ""]}

\* ---------------------------------------------------- identifier resolver
\* resolveIssueId(client, token) of lib/issue-utils, which classifies a token by
\* its shape.  An opaque ID has a fixed length and is made of ID characters
\* only; a composite key is PREFIX-NUMBER, a prefix of letters in either case
\* and a positive integer.
OpaqueIdChars == {"u", "v"}
Letters == {"A", "a"}
Digits == {"1", "2", "3"}

IsOpaqueId(token) == Len(token) = 1 /\ token[1] \in OpaqueIdChars

IndexOfDash(token) ==
    IF Includes(token, "-") THEN CHOOSE i \in DOMAIN token : token[i] = "-" /\ \A j \in 1..(i - 1) : token[j] # "-"
    ELSE 0

IsCompositeKey(token) ==
    /\ IndexOfDash(token) > 1
    /\ IndexOfDash(token) < Len(token)
    /\ \A i \in 1..(IndexOfDash(token) - 1) : token[i] \in Letters
    /\ \A i \in (IndexOfDash(token) + 1)..Len(token) : token[i] \in Digits

\* The parts of a composite key: the prefix in upper case, and the number.
ToUpperCase(s) == [i \in DOMAIN s |-> IF s[i] = "a" THEN "A" ELSE s[i]]
KeyPrefix(token) == ToUpperCase(SubSeq(token, 1, IndexOfDash(token) - 1))
KeyNumber(token) == SubSeq(token, IndexOfDash(token) + 1, Len(token))

\* The service's answer to the lookup of (prefix, number): the ID of the issue
\* that has this identifier, or nothing.
LookupByComposite(prefix, number) ==
    IF \E id \in IssueIds : IssueIdentifier(id) = prefix \o <<"-">> \o number
    THEN Some(CHOOSE id \in IssueIds : IssueIdentifier(id) = prefix \o <<"-">> \o number)
    ELSE None

\* The errors the resolver throws itself.
ResolutionError(kind) == [isError |-> TRUE, message |-> kind]
ResolutionErrors == {ResolutionError("InvalidIdentifierFormat"), ResolutionError("NotFound")}

\* Mutant of LookupCalls: every resolution looks its token up, whatever its shape.
LookupCallsAlways(token) == 1

\* Mutant of LookupCalls: the lookup of a composite key is issued twice.
LookupCallsRetried(token) == IF ~IsOpaqueId(token) /\ IsCompositeKey(token) THEN 2 ELSE 0

\* The lookup calls one resolution issues: one for a composite key, none for
\* any other token.
LookupCalls(token) == IF ~IsOpaqueId(token) /\ IsCompositeKey(token) THEN 1 ELSE 0

\* Mutant of ErrMessage: the message of whatever was thrown, Error or not.
ErrMessageUnchecked(e) == e.message

\* err instanceof Error ? err.message : 'Unknown error'
ErrMessage(e) == IF e.isError THEN e.message ELSE "Unknown error"

VARIABLES
    cmd,            \* the command being run
    flags,          \* its parsed flags and argument (oclif output)
    pc,             \* position of run(): start, resolvePhase, updatePhase, batch, single, done
    input,          \* bulk-update: the IssueUpdateInput built from the flags
    identifiers,    \* the token list split from --ids
    addLabelIds,    \* bulk-label: parsed --add-labels
    removeLabelIds, \* bulk-label: parsed --remove-labels
    items,          \* one record per async closure handed to Promise.all
    results,        \* the results array the closures push to
    remoteLabels,   \* the service's label list of every issue
    relations,      \* the service's relations between issues
    output,         \* what was printed: None, a summary, an item, or an error
    exitCode,
    disk,           \* the files of the home directory: config.json, its temp file, CLAUDE.md
    proc            \* config and setup commands: the locals of the command that runs

vars == <<cmd, flags, pc, input, identifiers, addLabelIds, removeLabelIds, items, results,
          remoteLabels, relations, output, exitCode, disk, proc>>

\* ----------------------------------------------------------------- inputs
\* The issue commands touch no file and keep no such locals.  Of proc, config
\* is the config writeConfig was called with, prior the content of config.json
\* when the command started, count the commands run so far, lastSet the
\* value of the last `config set` of each key that printed its success, and
\* cleanup what the catch of writeConfig did to the temp file: "none" when it
\* did not run, "absent" when there was no file, "removed", or "failed".
NoDisk == [config |-> None, temp |-> None, stale |-> FALSE, claudeMd |-> None]
NoProc == [config |-> None, prior |-> None, count |-> 0, lastSet |-> None, cleanup |-> "none"]

NoFlags == [ids |-> None, arg |-> None, stateId |-> None, priority |-> None, assigneeId |-> None,
            projectId |-> None, estimate |-> None, labelIds |-> None,
            addLabels |-> None, removeLabels |-> None]

IdsValues == {s \in Str(IdChars, MaxIdsLen) : NumCommas(s) < MaxItems}
LabelFlagValues == Str(LabelChars, MaxLabelFlagLen)
ShortLabelFlagValues == Str(LabelChars, MaxShortFlagLen)
Optional(S) == {None} \cup {Some(v) : v \in S}

NoInput == [stateId |-> None, priority |-> None, assigneeId |-> None, projectId |-> None,
            estimate |-> None, labelIds |-> None]

\* The field flags bulk-update is run with: none; an empty --state-id or
\* --label-ids; a state; an empty --assignee-id (unassign); a label list that
\* repeats an ID; a state and a label list.
BulkUpdateFieldFlags ==
    {NoFlags,
     [NoFlags EXCEPT !.stateId = Some(<<>>)],
     [NoFlags EXCEPT !.labelIds = Some(<<>>)],
     [NoFlags EXCEPT !.stateId = Some(<<"s">>)],
     [NoFlags EXCEPT !.assigneeId = Some(<<>>)],
     [NoFlags EXCEPT !.labelIds = Some(<<"x", ",", "x">>)],
     [NoFlags EXCEPT !.stateId = Some(<<"s">>), !.labelIds = Some(<<"y">>)]}

\* Tokens of every shape: the two opaque IDs, the keys of the two issues (one
\* with its prefix in lower case), a key of no issue, and tokens of neither
\* shape.
TokenValues == {<<"u">>, <<"v">>, <<"A", "-", "1">>, <<"a", "-", "2">>, <<"A", "-", "3">>,
                <<"A", "-">>, <<"u", "u">>}

\* --ids values that hold up to MaxItems of these tokens.
RECURSIVE JoinComma(_)
JoinComma(tokens) ==
    IF Len(tokens) = 0 THEN <<>>
    ELSE IF Len(tokens) = 1 THEN tokens[1]
    ELSE tokens[1] \o <<",">> \o JoinComma(Tail(tokens))

TokenIdsValues == {JoinComma(ts) : ts \in UNION {[1..k -> TokenValues] : k \in 1..MaxItems}}

\* The labels the service holds when a batch of several tokens starts.
BatchLabels == [i \in IssueIds |-> IF i = <<"u">> THEN <<<<"x">>>> ELSE <<>>]

\* Tokens of every shape, one set of field flags or label flags.
InitResolve ==
    /\ \/ /\ cmd = "bulk-update"
          /\ \E ids \in TokenIdsValues :
                flags = [NoFlags EXCEPT !.ids = Some(ids), !.stateId = Some(<<"s">>)]
       \/ /\ cmd = "bulk-label"
          /\ \E ids \in TokenIdsValues :
                flags = [NoFlags EXCEPT !.ids = Some(ids), !.addLabels = Some(<<"y">>),
                                        !.removeLabels = Some(<<"x">>)]
    /\ remoteLabels = BatchLabels

\* Many tokens, few label values.
InitBatch ==
    /\ \/ /\ cmd = "bulk-update"
          /\ \E ids \in IdsValues, f \in BulkUpdateFieldFlags :
                flags = [f EXCEPT !.ids = Some(ids)]
       \/ /\ cmd = "bulk-label"
          /\ \E ids \in IdsValues, a \in Optional({<<"x">>}), r \in Optional({<<"x">>}) :
                flags = [NoFlags EXCEPT !.ids = Some(ids), !.addLabels = a, !.removeLabels = r]
    /\ remoteLabels = BatchLabels

\* One token, every value of one label flag against the short values of the other.
InitLabels ==
    /\ \/ /\ cmd = "bulk-label"
          /\ \E a, r \in Optional(LabelFlagValues) :
                /\ a \in Optional(ShortLabelFlagValues) \/ r \in Optional(ShortLabelFlagValues)
                /\ flags = [NoFlags EXCEPT !.ids = Some(<<"A", "-", "1">>), !.addLabels = a,
                                           !.removeLabels = r]
       \/ /\ cmd \in {"add-labels", "remove-labels"}
          /\ \E l \in LabelFlagValues :
                flags = [NoFlags EXCEPT !.arg = Some(<<"A", "-", "1">>), !.labelIds = Some(l)]
    /\ \E l \in LabelSeqs : remoteLabels = [i \in IssueIds |-> l]

Init ==
    /\ InitBatch \/ InitLabels \/ InitResolve
    /\ pc = "start"
    /\ input = NoInput
    /\ identifiers = <<>>
    /\ addLabelIds = <<>>
    /\ removeLabelIds = <<>>
    /\ items = <<>>
    /\ results = <<>>
    /\ relations = {}
    /\ output = None
    /\ exitCode = 0
    /\ disk = NoDisk
    /\ proc = NoProc


\* ---------------------------------------------------------------- helpers
\* The state of one closure.  pc is its position; lookups counts the lookup
\* calls its resolution has issued and updates the updateIssue calls the closure
\* has issued; id, error, existingLabelIds,
\* labelsToAdd, labelsToRemove are its locals; sent is the input of its
\* updateIssue call and payload the success flag of the payload it got.  fault
\* names the await that rejected (or "none") and thrown what it rejected with, refused tells that a call answered with nothing or with a
\* non-success payload the code tests for: both only record what the
\* environment did to this item.
NewItem(token) ==
    [identifier |-> token, pc |-> "resolving", lookups |-> LookupCalls(token), updates |-> 0,
     id |-> None,
     error |-> None,
     existingLabelIds |-> <<>>, labelsToAdd |-> <<>>, labelsToRemove |-> <<>>, sent |-> None,
     payload |-> None, fault |-> "none", thrown |-> None, refused |-> FALSE]

FailureResult(i, identifier, id, message) ==
    [item |-> i, identifier |-> identifier, id |-> id, success |-> FALSE, error |-> Some(message),
     labelsAdded |-> None, labelsRemoved |-> None]

SuccessResult(i, identifier, id, added, removed) ==
    [item |-> i, identifier |-> identifier, id |-> id, success |-> TRUE, error |-> None,
     labelsAdded |-> added, labelsRemoved |-> removed]

\* How the promise of resolveIssueId(client, token) can settle.  An opaque ID is
\* returned as it is; a token of neither shape is rejected; for a composite key
\* the lookup answers with the ID or with nothing (NotFound), or the call
\* itself rejects.
ResolveOutcomes(token) ==
    IF IsOpaqueId(token)
    THEN {[ok |-> TRUE, id |-> token, thrown |-> CHOOSE e \in Throwables : TRUE]}
    ELSE IF ~IsCompositeKey(token)
    THEN {[ok |-> FALSE, id |-> <<>>, thrown |-> ResolutionError("InvalidIdentifierFormat")]}
    ELSE {IF IsSome(LookupByComposite(KeyPrefix(token), KeyNumber(token)))
          THEN [ok |-> TRUE, id |-> Get(LookupByComposite(KeyPrefix(token), KeyNumber(token))),
                thrown |-> CHOOSE e \in Throwables : TRUE]
          ELSE [ok |-> FALSE, id |-> <<>>, thrown |-> ResolutionError("NotFound")]}
         \cup {[ok |-> FALSE, id |-> <<>>, thrown |-> e] : e \in Throwables}

\* client.issue(id), payload.issue: an object, nothing, or a rejection.
FetchOutcomes ==
    {[kind |-> k, thrown |-> CHOOSE e \in Throwables : TRUE] : k \in {"object", "nothing"}}
        \cup {[kind |-> "throw", thrown |-> e] : e \in Throwables}

\* client.updateIssue(id, input): a payload with its success flag, or a rejection.
UpdateOutcomes ==
    {[kind |-> "payload", success |-> b, thrown |-> CHOOSE e \in Throwables : TRUE] : b \in BOOLEAN}
        \cup {[kind |-> "throw", success |-> FALSE, thrown |-> e] : e \in Throwables}

\* The service stores the label list of an accepted update.
ApplyUpdate(labels, id, inp) ==
    IF IsSome(inp.labelIds) THEN [labels EXCEPT ![id] = Dedup(Get(inp.labelIds))] ELSE labels

\* Mutant of AllSettled: the summary waits for the first closure only
\* (Promise.race in place of Promise.all).
AnySettled == \E i \in DOMAIN items : items[i].pc = "done"

\* The promise of every closure has settled: Promise.all resolves.
AllSettled == \A i \in DOMAIN items : items[i].pc = "done"

SuccessCount(rs) == Cardinality({k \in DOMAIN rs : rs[k].success})
FailedCount(rs) == Cardinality({k \in DOMAIN rs : ~rs[k].success})

\* handleError(err); this.exit(1)
HandleError(code) ==
    /\ output' = Some([kind |-> "error", code |-> code])
    /\ exitCode' = 1
    /\ pc' = "done"

\* The code handleError reports a thrown value under: the value's own, which
\* is none of the codes the commands throw themselves.
ThrownCode(e) == "THROWN"

\* ------------------------------------------------------ issues bulk-update
\* A string flag that is present and not the empty string.
Truthy(f) == IsSome(f) /\ Get(f) # <<>>

\* Lines 59-68: the update input built from the flags.  A key is set when its
\* flag is truthy (state-id, project-id, label-ids) or defined (priority,
\* assignee-id, estimate); an empty assignee-id is sent as null.
BuildInput(f) ==
    [stateId |-> IF Truthy(f.stateId) THEN f.stateId ELSE None,
     priority |-> f.priority,
     assigneeId |-> IF IsSome(f.assigneeId)
                    THEN Some(IF Get(f.assigneeId) # <<>> THEN Get(f.assigneeId) ELSE <<"null">>)
                    ELSE None,
     projectId |-> IF Truthy(f.projectId) THEN f.projectId ELSE None,
     estimate |-> f.estimate,
     labelIds |-> IF Truthy(f.labelIds) THEN Some(ParseList(Get(f.labelIds))) ELSE None]

\* Object.keys(input)
InputKeys(inp) == {k \in DOMAIN inp : IsSome(inp[k])}

\* Lines 55-97: parse, validate, and start one resolution per token.
BulkUpdateStart ==
    /\ cmd = "bulk-update"
    /\ pc = "start"
    /\ IF InputKeys(BuildInput(flags)) = {} \/ Len(ParseList(Get(flags.ids))) = 0
       THEN /\ HandleError("INVALID_INPUT")
            /\ UNCHANGED <<input, identifiers, items>>
       ELSE /\ input' = BuildInput(flags)
            /\ identifiers' = ParseList(Get(flags.ids))
            /\ items' = [i \in 1..Len(ParseList(Get(flags.ids))) |-> NewItem(ParseList(Get(flags.ids))[i])]
            /\ pc' = "resolvePhase"
            /\ UNCHANGED <<output, exitCode>>
    /\ UNCHANGED <<disk, proc, relations, cmd, flags, addLabelIds, removeLabelIds, results, remoteLabels>>

\* Lines 89-96: one resolution settles; a rejection is kept as the item's error.
BulkUpdateResolveSettle(i) ==
    /\ cmd = "bulk-update"
    /\ pc = "resolvePhase"
    /\ items[i].pc = "resolving"
    /\ \E o \in ResolveOutcomes(items[i].identifier) :
          items' = [items EXCEPT ![i] =
                      IF o.ok THEN [@ EXCEPT !.pc = "resolved", !.id = Some(o.id)]
                      ELSE [@ EXCEPT !.pc = "resolved", !.error = Some(ErrMessage(o.thrown)),
                                     !.fault = "resolve", !.thrown = Some(o.thrown)]]
    /\ UNCHANGED <<disk, proc, relations, cmd, flags, pc, input, identifiers, addLabelIds, removeLabelIds, results,
                   remoteLabels, output, exitCode>>

\* Mutant of Unresolved: the update closure has no guard and calls updateIssue
\* for every item.
UnresolvedNever(it) == FALSE

\* Lines 101-110: the synchronous head of the update closure of item i.
Unresolved(it) == IsSome(it.error) \/ ~IsSome(it.id) \/ (IsSome(it.id) /\ Get(it.id) = <<>>)

\* Mutant of UnresolvedResult: the message of the resolution error is dropped.
UnresolvedResultNoMessage(i, it) ==
    FailureResult(i, it.identifier, IF IsSome(it.id) THEN Get(it.id) ELSE <<>>, "Failed to resolve issue ID")

UnresolvedResult(i, it) ==
    FailureResult(i, it.identifier, IF IsSome(it.id) THEN Get(it.id) ELSE <<>>,
                  IF IsSome(it.error) THEN Get(it.error) ELSE "Failed to resolve issue ID")

RECURSIVE UnresolvedResults(_, _)
UnresolvedResults(its, i) ==
    IF i > Len(its) THEN <<>>
    ELSE (IF Unresolved(its[i]) THEN <<UnresolvedResult(i, its[i])>> ELSE <<>>)
            \o UnresolvedResults(its, i + 1)

\* Mutant of BulkUpdateDispatch: one Promise.all whose closures resolve and then
\* update, so that the update of a resolved item starts while other tokens are
\* being resolved.
BulkUpdateDispatchEarly ==
    /\ cmd = "bulk-update"
    /\ pc = "resolvePhase"
    /\ \E i \in DOMAIN items : items[i].pc = "resolved"
    /\ results' = results \o UnresolvedResults(SelectSeq(items, LAMBDA it : it.pc = "resolved"), 1)
    /\ items' = [i \in DOMAIN items |->
                    IF items[i].pc # "resolved" THEN items[i]
                    ELSE IF Unresolved(items[i]) THEN [items[i] EXCEPT !.pc = "done"]
                    ELSE [items[i] EXCEPT !.pc = "updating", !.sent = Some(input), !.updates = @ + 1]]
    /\ pc' = "updatePhase"
    /\ UNCHANGED <<disk, proc, relations, cmd, flags, input, identifiers, addLabelIds, removeLabelIds, remoteLabels,
                   output, exitCode>>

\* Lines 100-113: every resolution has settled; the update closures start in
\* input order, each running up to its first await.
BulkUpdateDispatch ==
    /\ cmd = "bulk-update"
    /\ pc = "resolvePhase"
    /\ \A i \in DOMAIN items : items[i].pc = "resolved"
    /\ results' = results \o UnresolvedResults(items, 1)
    /\ items' = [i \in DOMAIN items |->
                    IF Unresolved(items[i]) THEN [items[i] EXCEPT !.pc = "done"]
                    ELSE [items[i] EXCEPT !.pc = "updating", !.sent = Some(input), !.updates = @ + 1]]
    /\ pc' = "updatePhase"
    /\ UNCHANGED <<disk, proc, relations, cmd, flags, input, identifiers, addLabelIds, removeLabelIds, remoteLabels,
                   output, exitCode>>

\* Mutant of BulkUpdateCatch: the failure is recorded under the issue ID.
BulkUpdateCatchById(i, e, step) ==
    /\ results' = Append(results, FailureResult(i, Get(items[i].id), Get(items[i].id), ErrMessage(e)))
    /\ items' = [items EXCEPT ![i].pc = "done", ![i].fault = step, ![i].thrown = Some(e)]
    /\ UNCHANGED <<pc, output, exitCode>>

\* Mutant of BulkUpdateCatch: a rejection ends the whole batch; the closures
\* still running are abandoned.
BulkUpdateCatchAbort(i, e, step) ==
    /\ results' = Append(results, FailureResult(i, items[i].identifier, Get(items[i].id), ErrMessage(e)))
    /\ items' = [j \in DOMAIN items |->
                    IF j = i THEN [items[j] EXCEPT !.pc = "done", !.fault = step, !.thrown = Some(e)]
                    ELSE [items[j] EXCEPT !.pc = "done"]]
    /\ UNCHANGED <<pc, output, exitCode>>

\* Mutant of BulkUpdateCatch: an update call that rejected is sent once more
\* before the failure is recorded.
BulkUpdateCatchRetry(i, e, step) ==
    IF step = "update" /\ items[i].updates < 2
    THEN /\ items' = [items EXCEPT ![i].updates = @ + 1]
         /\ UNCHANGED <<results, pc, output, exitCode>>
    ELSE /\ results' = Append(results, FailureResult(i, items[i].identifier, Get(items[i].id), ErrMessage(e)))
         /\ items' = [items EXCEPT ![i].pc = "done", ![i].fault = step, ![i].thrown = Some(e)]
         /\ UNCHANGED <<pc, output, exitCode>>

\* Lines 131-138: the catch of the update closure.
BulkUpdateCatch(i, e, step) ==
    /\ results' = Append(results, FailureResult(i, items[i].identifier, Get(items[i].id), ErrMessage(e)))
    /\ items' = [items EXCEPT ![i].pc = "done", ![i].fault = step, ![i].thrown = Some(e)]
    /\ UNCHANGED <<pc, output, exitCode>>

\* Line 113: client.updateIssue settles.
BulkUpdateUpdateSettle(i) ==
    /\ cmd = "bulk-update"
    /\ pc = "updatePhase"
    /\ items[i].pc = "updating"
    /\ \E o \in UpdateOutcomes :
          IF o.kind = "throw"
          THEN /\ BulkUpdateCatch(i, o.thrown, "update")
               /\ UNCHANGED remoteLabels
          ELSE /\ items' = [items EXCEPT ![i].pc = "awaitIssue", ![i].payload = Some(o.success)]
               /\ remoteLabels' = IF o.success THEN ApplyUpdate(remoteLabels, Get(items[i].id), input)
                                  ELSE remoteLabels
               /\ UNCHANGED <<results, pc, output, exitCode>>
    /\ UNCHANGED <<disk, proc, relations, cmd, flags, input, identifiers, addLabelIds, removeLabelIds>>

\* Lines 114-130: payload.issue settles.
BulkUpdateIssueSettle(i) ==
    /\ cmd = "bulk-update"
    /\ pc = "updatePhase"
    /\ items[i].pc = "awaitIssue"
    /\ \E o \in FetchOutcomes :
          CASE o.kind = "throw" -> BulkUpdateCatch(i, o.thrown, "payload")
            [] o.kind = "nothing" ->
                /\ results' = Append(results, FailureResult(i, items[i].identifier, Get(items[i].id),
                                                            "Failed to update issue"))
                /\ items' = [items EXCEPT ![i].pc = "done", ![i].refused = TRUE]
                /\ UNCHANGED <<pc, output, exitCode>>
            [] OTHER ->
                /\ results' = Append(results, SuccessResult(i, IssueIdentifier(Get(items[i].id)),
                                                            Get(items[i].id), None, None))
                /\ items' = [items EXCEPT ![i].pc = "done"]
                /\ UNCHANGED <<pc, output, exitCode>>
    /\ UNCHANGED <<disk, proc, relations, cmd, flags, input, identifiers, addLabelIds, removeLabelIds, remoteLabels>>

\* Lines 142-153: Promise.all has resolved; count and print.
BulkUpdateSummary ==
    /\ cmd = "bulk-update"
    /\ pc = "updatePhase"
    /\ AllSettled
    /\ output' = Some([kind |-> "summary", totalRequested |-> Len(identifiers),
                       successCount |-> SuccessCount(results), failedCount |-> FailedCount(results),
                       results |-> results])
    /\ pc' = "done"
    /\ UNCHANGED <<disk, proc, relations, cmd, flags, input, identifiers, addLabelIds, removeLabelIds, items, results,
                   remoteLabels, exitCode>>

\* ------------------------------------------------------- issues bulk-label
\* Mutant of NoLabelOperations: the test `!addLabelIds && !removeLabelIds`, which
\* no array satisfies.
NoLabelOperationsTruthy(add, remove) == FALSE

\* Line 157: neither list names a label.
NoLabelOperations(add, remove) == Len(add) = 0 /\ Len(remove) = 0

\* flags['add-labels']?.split(',').map((id) => id.trim()) ?? []
ParseOptionalList(f) == IF IsSome(f) THEN ParseList(Get(f)) ELSE <<>>

\* Mutant of LabelsToAdd: every requested label counts as added.
LabelsToAddUnfiltered(existing, add) == add

\* Line 196: addLabelIds.filter((id) => !existingLabelIds.includes(id))
LabelsToAdd(existing, add) == SelectSeq(add, LAMBDA id : ~Includes(existing, id))

\* Line 197: removeLabelIds.filter((id) => existingLabelIds.includes(id))
LabelsToRemove(existing, remove) == SelectSeq(remove, LAMBDA id : Includes(existing, id))

\* Mutant of NewLabelIds: the list sent is the list of requested additions.
NewLabelIdsRequestedOnly(existing, add, remove) == add

\* Line 200: [...existingLabelIds.filter((id) => !removeLabelIds.includes(id)), ...labelsToAdd]
NewLabelIds(existing, add, remove) ==
    SelectSeq(existing, LAMBDA id : ~Includes(remove, id)) \o LabelsToAdd(existing, add)

LabelInput(labelIds) == [NoInput EXCEPT !.labelIds = Some(labelIds)]

\* labelsToAdd.length > 0 ? labelsToAdd : undefined
NonEmptyOrUndefined(l) == IF Len(l) > 0 THEN Some(l) ELSE None

\* Lines 151-178: parse, validate, and start one closure per token; each runs
\* up to its first await, the call of resolveIssueId.
BulkLabelStart ==
    /\ cmd = "bulk-label"
    /\ pc = "start"
    /\ IF NoLabelOperations(ParseOptionalList(flags.addLabels), ParseOptionalList(flags.removeLabels))
          \/ Len(ParseList(Get(flags.ids))) = 0
       THEN /\ HandleError("INVALID_INPUT")
            /\ UNCHANGED <<identifiers, addLabelIds, removeLabelIds, items>>
       ELSE /\ addLabelIds' = ParseOptionalList(flags.addLabels)
            /\ removeLabelIds' = ParseOptionalList(flags.removeLabels)
            /\ identifiers' = ParseList(Get(flags.ids))
            /\ items' = [i \in 1..Len(ParseList(Get(flags.ids))) |-> NewItem(ParseList(Get(flags.ids))[i])]
            /\ pc' = "batch"
            /\ UNCHANGED <<output, exitCode>>
    /\ UNCHANGED <<disk, proc, relations, cmd, flags, input, results, remoteLabels>>

\* Mutant of BulkLabelCatch: the catch swallows the error and records nothing.
BulkLabelCatchDrop(i, e, step) ==
    /\ items' = [items EXCEPT ![i].pc = "done", ![i].fault = step, ![i].thrown = Some(e)]
    /\ UNCHANGED <<results, pc, output, exitCode>>

\* Mutant of BulkLabelCatch: no catch in the closure, so its promise rejects,
\* Promise.all rejects, and the catch of run() ends the command.
BulkLabelCatchRethrow(i, e, step) ==
    /\ items' = [items EXCEPT ![i].pc = "done", ![i].fault = step, ![i].thrown = Some(e)]
    /\ HandleError(ThrownCode(e))
    /\ UNCHANGED results

\* Lines 225-232: the catch of the closure of item i.
BulkLabelCatch(i, e, step) ==
    /\ results' = Append(results, FailureResult(i, items[i].identifier, <<>>, ErrMessage(e)))
    /\ items' = [items EXCEPT ![i].pc = "done", ![i].fault = step, ![i].thrown = Some(e)]
    /\ UNCHANGED <<pc, output, exitCode>>

\* Line 178: resolveIssueId settles; client.issue is called.
BulkLabelResolveSettle(i) ==
    /\ cmd = "bulk-label"
    /\ pc = "batch"
    /\ items[i].pc = "resolving"
    /\ \E o \in ResolveOutcomes(items[i].identifier) :
          IF o.ok
          THEN /\ items' = [items EXCEPT ![i].pc = "fetchIssue", ![i].id = Some(o.id)]
               /\ UNCHANGED <<results, pc, output, exitCode>>
          ELSE BulkLabelCatch(i, o.thrown, "resolve")
    /\ UNCHANGED <<disk, proc, relations, cmd, flags, input, identifiers, addLabelIds, removeLabelIds, remoteLabels>>

\* Lines 179-192: client.issue settles; issue.labels() is called.
BulkLabelIssueSettle(i) ==
    /\ cmd = "bulk-label"
    /\ pc = "batch"
    /\ items[i].pc = "fetchIssue"
    /\ \E o \in FetchOutcomes :
          CASE o.kind = "throw" -> BulkLabelCatch(i, o.thrown, "issue")
            [] o.kind = "nothing" ->
                /\ results' = Append(results, FailureResult(i, items[i].identifier, Get(items[i].id),
                                                            "Issue not found"))
                /\ items' = [items EXCEPT ![i].pc = "done", ![i].refused = TRUE]
                /\ UNCHANGED <<pc, output, exitCode>>
            [] OTHER ->
                /\ items' = [items EXCEPT ![i].pc = "fetchLabels"]
                /\ UNCHANGED <<results, pc, output, exitCode>>
    /\ UNCHANGED <<disk, proc, relations, cmd, flags, input, identifiers, addLabelIds, removeLabelIds, remoteLabels>>

\* Lines 192-205: issue.labels() settles with the issue's labels as the service
\* holds them now; the new list is computed and sent.
BulkLabelLabelsSettle(i) ==
    /\ cmd = "bulk-label"
    /\ pc = "batch"
    /\ items[i].pc = "fetchLabels"
    /\ \/ \E e \in Throwables : BulkLabelCatch(i, e, "labels")
       \/ /\ items' = [items EXCEPT ![i] =
                [@ EXCEPT !.pc = "updating",
                          !.updates = @ + 1,
                          !.existingLabelIds = remoteLabels[Get(items[i].id)],
                          !.labelsToAdd = LabelsToAdd(remoteLabels[Get(items[i].id)], addLabelIds),
                          !.labelsToRemove = LabelsToRemove(remoteLabels[Get(items[i].id)], removeLabelIds),
                          !.sent = Some(LabelInput(NewLabelIds(remoteLabels[Get(items[i].id)], addLabelIds,
                                                               removeLabelIds)))]]
          /\ UNCHANGED <<results, pc, output, exitCode>>
    /\ UNCHANGED <<disk, proc, relations, cmd, flags, input, identifiers, addLabelIds, removeLabelIds, remoteLabels>>

\* Lines 203-217: client.updateIssue settles.
BulkLabelUpdateSettle(i) ==
    /\ cmd = "bulk-label"
    /\ pc = "batch"
    /\ items[i].pc = "updating"
    /\ \E o \in UpdateOutcomes :
          CASE o.kind = "throw" ->
                /\ BulkLabelCatch(i, o.thrown, "update")
                /\ UNCHANGED remoteLabels
            [] o.kind = "payload" /\ ~o.success ->
                /\ results' = Append(results, FailureResult(i, items[i].identifier, Get(items[i].id),
                                                            "Failed to update labels"))
                /\ items' = [items EXCEPT ![i].pc = "done", ![i].payload = Some(FALSE),
                                         ![i].refused = TRUE]
                /\ UNCHANGED <<pc, output, exitCode, remoteLabels>>
            [] OTHER ->
                /\ remoteLabels' = ApplyUpdate(remoteLabels, Get(items[i].id), Get(items[i].sent))
                /\ items' = [items EXCEPT ![i].pc = "awaitIssue", ![i].payload = Some(TRUE)]
                /\ UNCHANGED <<results, pc, output, exitCode>>
    /\ UNCHANGED <<disk, proc, relations, cmd, flags, input, identifiers, addLabelIds, removeLabelIds>>

\* Lines 217-224: payload.issue settles.
BulkLabelPayloadIssueSettle(i) ==
    /\ cmd = "bulk-label"
    /\ pc = "batch"
    /\ items[i].pc = "awaitIssue"
    /\ \E o \in FetchOutcomes :
          IF o.kind = "throw"
          THEN BulkLabelCatch(i, o.thrown, "payload")
          ELSE /\ results' = Append(results,
                    SuccessResult(i,
                                  IF o.kind = "object" THEN IssueIdentifier(Get(items[i].id))
                                  ELSE items[i].identifier,
                                  Get(items[i].id),
                                  NonEmptyOrUndefined(items[i].labelsToAdd),
                                  NonEmptyOrUndefined(items[i].labelsToRemove)))
               /\ items' = [items EXCEPT ![i].pc = "done"]
               /\ UNCHANGED <<pc, output, exitCode>>
    /\ UNCHANGED <<disk, proc, relations, cmd, flags, input, identifiers, addLabelIds, removeLabelIds, remoteLabels>>

\* Lines 236-248: Promise.all has resolved; count and print.
BulkLabelSummary ==
    /\ cmd = "bulk-label"
    /\ pc = "batch"
    /\ AllSettled
    /\ output' = Some([kind |-> "summary", totalRequested |-> Len(identifiers),
                       successCount |-> SuccessCount(results), failedCount |-> FailedCount(results),
                       results |-> results])
    /\ pc' = "done"
    /\ UNCHANGED <<disk, proc, relations, cmd, flags, input, identifiers, addLabelIds, removeLabelIds, items, results,
                   remoteLabels, exitCode>>

\* ------------------------------- issues add-labels / issues remove-labels
\* Mutant of CombinedLabelIds: the new labels replace the existing ones.
CombinedLabelIdsReplace(existing, new) == Dedup(new)

\* add-labels line 54: [...new Set([...existingLabelIds, ...newLabelIds])]
CombinedLabelIds(existing, new) == Dedup(existing \o new)

\* remove-labels line 54: existingLabelIds.filter((id) => !labelIdsToRemove.includes(id))
RemainingLabelIds(existing, remove) == SelectSeq(existing, LAMBDA id : ~Includes(remove, id))

\* add-labels line 81: newLabelIds.filter((id) => !existingLabelIds.includes(id))
LabelsAdded(existing, new) == SelectSeq(new, LAMBDA id : ~Includes(existing, id))

\* remove-labels line 81: labelIdsToRemove.filter((id) => existingLabelIds.includes(id))
LabelsRemoved(existing, remove) == SelectSeq(remove, LAMBDA id : Includes(existing, id))

SingleLabelCmds == {"add-labels", "remove-labels"}

\* Lines 35-39: run() starts and calls resolveIssueId on the argument.
SingleStart ==
    /\ cmd \in SingleLabelCmds
    /\ pc = "start"
    /\ items' = <<NewItem(Get(flags.arg))>>
    /\ pc' = "single"
    /\ UNCHANGED <<disk, proc, relations, cmd, flags, input, identifiers, addLabelIds, removeLabelIds, results,
                   remoteLabels, output, exitCode>>

\* Lines 102-105: the catch of run(): the command fails as a whole.
SingleFail(code, step) ==
    /\ HandleError(code)
    /\ items' = [items EXCEPT ![1].pc = "done", ![1].fault = step]

\* Lines 42-44, 61-68: the command throws a CliError of its own.
SingleRefuse(code) ==
    /\ HandleError(code)
    /\ items' = [items EXCEPT ![1].pc = "done", ![1].refused = TRUE]

\* Line 39: resolveIssueId settles; client.issue is called.
SingleResolveSettle ==
    /\ cmd \in SingleLabelCmds
    /\ pc = "single"
    /\ items[1].pc = "resolving"
    /\ \E o \in ResolveOutcomes(items[1].identifier) :
          IF o.ok
          THEN /\ items' = [items EXCEPT ![1].pc = "fetchIssue", ![1].id = Some(o.id)]
               /\ UNCHANGED <<pc, output, exitCode>>
          ELSE SingleFail(ThrownCode(o.thrown), "resolve")
    /\ UNCHANGED <<disk, proc, relations, cmd, flags, input, identifiers, addLabelIds, removeLabelIds, results, remoteLabels>>

\* Lines 40-47: client.issue settles; issue.labels() is called.
SingleIssueSettle ==
    /\ cmd \in SingleLabelCmds
    /\ pc = "single"
    /\ items[1].pc = "fetchIssue"
    /\ \E o \in FetchOutcomes :
          CASE o.kind = "throw" -> SingleFail(ThrownCode(o.thrown), "issue")
            [] o.kind = "nothing" -> SingleRefuse("NOT_FOUND")
            [] OTHER -> /\ items' = [items EXCEPT ![1].pc = "fetchLabels"]
                        /\ UNCHANGED <<pc, output, exitCode>>
    /\ UNCHANGED <<disk, proc, relations, cmd, flags, input, identifiers, addLabelIds, removeLabelIds, results, remoteLabels>>

\* Lines 47-59: issue.labels() settles; the flag is parsed, the new list is
\* computed and sent.
SingleLabelsSettle ==
    /\ cmd \in SingleLabelCmds
    /\ pc = "single"
    /\ items[1].pc = "fetchLabels"
    /\ \/ \E e \in Throwables : SingleFail(ThrownCode(e), "labels")
       \/ /\ items' = [items EXCEPT ![1] =
                [@ EXCEPT !.pc = "updating",
                          !.updates = @ + 1,
                          !.existingLabelIds = remoteLabels[Get(items[1].id)],
                          !.labelsToAdd = IF cmd = "add-labels"
                                    THEN LabelsAdded(remoteLabels[Get(items[1].id)],
                                                     ParseList(Get(flags.labelIds)))
                                    ELSE <<>>,
                          !.labelsToRemove = IF cmd = "remove-labels"
                                       THEN LabelsRemoved(remoteLabels[Get(items[1].id)],
                                                          ParseList(Get(flags.labelIds)))
                                       ELSE <<>>,
                          !.sent = Some(LabelInput(
                                    IF cmd = "add-labels"
                                    THEN CombinedLabelIds(remoteLabels[Get(items[1].id)],
                                                          ParseList(Get(flags.labelIds)))
                                    ELSE RemainingLabelIds(remoteLabels[Get(items[1].id)],
                                                           ParseList(Get(flags.labelIds)))))]]
          /\ UNCHANGED <<pc, output, exitCode>>
    /\ UNCHANGED <<disk, proc, relations, cmd, flags, input, identifiers, addLabelIds, removeLabelIds, results, remoteLabels>>

\* Lines 57-65: client.updateIssue settles.
SingleUpdateSettle ==
    /\ cmd \in SingleLabelCmds
    /\ pc = "single"
    /\ items[1].pc = "updating"
    /\ \E o \in UpdateOutcomes :
          CASE o.kind = "throw" ->
                /\ SingleFail(ThrownCode(o.thrown), "update")
                /\ UNCHANGED remoteLabels
            [] o.kind = "payload" /\ ~o.success ->
                /\ SingleRefuse("API_ERROR")
                /\ UNCHANGED remoteLabels
            [] OTHER ->
                /\ remoteLabels' = ApplyUpdate(remoteLabels, Get(items[1].id), Get(items[1].sent))
                /\ items' = [items EXCEPT ![1].pc = "awaitIssue", ![1].payload = Some(TRUE)]
                /\ UNCHANGED <<pc, output, exitCode>>
    /\ UNCHANGED <<disk, proc, relations, cmd, flags, input, identifiers, addLabelIds, removeLabelIds, results>>

\* Lines 65-70: payload.issue settles; updatedIssue.labels() is called.
SinglePayloadIssueSettle ==
    /\ cmd \in SingleLabelCmds
    /\ pc = "single"
    /\ items[1].pc = "awaitIssue"
    /\ \E o \in FetchOutcomes :
          CASE o.kind = "throw" -> SingleFail(ThrownCode(o.thrown), "payload")
            [] o.kind = "nothing" -> SingleRefuse("API_ERROR")
            [] OTHER -> /\ items' = [items EXCEPT ![1].pc = "awaitLabels"]
                        /\ UNCHANGED <<pc, output, exitCode>>
    /\ UNCHANGED <<disk, proc, relations, cmd, flags, input, identifiers, addLabelIds, removeLabelIds, results, remoteLabels>>

\* Lines 70-101: updatedIssue.labels() settles; the item is printed.
SingleUpdatedLabelsSettle ==
    /\ cmd \in SingleLabelCmds
    /\ pc = "single"
    /\ items[1].pc = "awaitLabels"
    /\ \/ \E e \in Throwables : SingleFail(ThrownCode(e), "labels")
       \/ /\ output' = Some([kind |-> "item", id |-> Get(items[1].id),
                             identifier |-> IssueIdentifier(Get(items[1].id)),
                             labels |-> remoteLabels[Get(items[1].id)],
                             labelsAdded |-> IF cmd = "add-labels" THEN Some(items[1].labelsToAdd) ELSE None,
                             labelsRemoved |-> IF cmd = "remove-labels" THEN Some(items[1].labelsToRemove) ELSE None])
          /\ items' = [items EXCEPT ![1].pc = "done"]
          /\ pc' = "done"
          /\ UNCHANGED exitCode
    /\ UNCHANGED <<disk, proc, relations, cmd, flags, input, identifiers, addLabelIds, removeLabelIds, results, remoteLabels>>

Next ==
    \/ BulkUpdateStart
    \/ \E i \in DOMAIN items : BulkUpdateResolveSettle(i)
    \/ BulkUpdateDispatch
    \/ \E i \in DOMAIN items : BulkUpdateUpdateSettle(i)
    \/ \E i \in DOMAIN items : BulkUpdateIssueSettle(i)
    \/ BulkUpdateSummary
    \/ BulkLabelStart
    \/ \E i \in DOMAIN items : BulkLabelResolveSettle(i)
    \/ \E i \in DOMAIN items : BulkLabelIssueSettle(i)
    \/ \E i \in DOMAIN items : BulkLabelLabelsSettle(i)
    \/ \E i \in DOMAIN items : BulkLabelUpdateSettle(i)
    \/ \E i \in DOMAIN items : BulkLabelPayloadIssueSettle(i)
    \/ BulkLabelSummary
    \/ SingleStart
    \/ SingleResolveSettle
    \/ SingleIssueSettle
    \/ SingleLabelsSettle
    \/ SingleUpdateSettle
    \/ SinglePayloadIssueSettle
    \/ SingleUpdatedLabelsSettle

Spec == Init /\ [][Next]_vars

\* The steps of the closure of item i: each is the settling of a call the
\* closure awaits.
ItemStep(i) ==
    /\ i \in DOMAIN items
    /\ \/ BulkUpdateResolveSettle(i)
       \/ BulkUpdateUpdateSettle(i)
       \/ BulkUpdateIssueSettle(i)
       \/ BulkLabelResolveSettle(i)
       \/ BulkLabelIssueSettle(i)
       \/ BulkLabelLabelsSettle(i)
       \/ BulkLabelUpdateSettle(i)
       \/ BulkLabelPayloadIssueSettle(i)

\* The steps of run() itself.
ProgramStep ==
    \/ BulkUpdateStart
    \/ BulkUpdateDispatch
    \/ BulkUpdateSummary
    \/ BulkLabelStart
    \/ BulkLabelSummary
    \/ SingleStart
    \/ SingleResolveSettle
    \/ SingleIssueSettle
    \/ SingleLabelsSettle
    \/ SingleUpdateSettle
    \/ SinglePayloadIssueSettle
    \/ SingleUpdatedLabelsSettle

\* Every call that is awaited settles at some time, and the event loop runs
\* every continuation that is ready.
FairSpec ==
    /\ Init /\ [][Next]_vars
    /\ WF_vars(ProgramStep)
    /\ \A i \in 1..MaxItems : WF_vars(ItemStep(i))


\* -------------------------------------------------------- relations create
\* commands/cycles/get.ts lines 279-382.  flags holds the two arguments and the
\* --type flag; items the two resolutions handed to Promise.all; input the
\* input of the createIssueRelation call once it is issued.
RELATION_TYPES == {"blocks", "duplicate", "related"}

InitRelations ==
    /\ cmd = "relations create"
    /\ \E a, b \in TokenValues, t \in RELATION_TYPES : flags = [issue |-> a, relatedIssue |-> b, type |-> t]
    /\ pc = "start"
    /\ input = None
    /\ identifiers = <<>>
    /\ addLabelIds = <<>>
    /\ removeLabelIds = <<>>
    /\ items = <<>>
    /\ results = <<>>
    /\ remoteLabels = BatchLabels
    /\ relations = {}
    /\ output = None
    /\ exitCode = 0
    /\ disk = NoDisk
    /\ proc = NoProc

\* Mutant of BothResolved: the call is issued when the first resolution has
\* succeeded (Promise.race in place of Promise.all).
OneResolved(its) == \E i \in DOMAIN its : its[i].pc = "resolved"

\* Promise.all of lines 323-326 resolves: both resolutions have succeeded.
BothResolved(its) == \A i \in DOMAIN its : its[i].pc = "resolved"

\* The input of createIssueRelation, lines 328-332.
RelationInput(its, type) == [issueId |-> its[1].id, relatedIssueId |-> its[2].id, type |-> type]

\* Lines 318-326: both resolveIssueId calls are issued.
RelationsStart ==
    /\ cmd = "relations create"
    /\ pc = "start"
    /\ items' = <<NewItem(flags.issue), NewItem(flags.relatedIssue)>>
    /\ pc' = "resolving"
    /\ UNCHANGED <<cmd, flags, input, identifiers, addLabelIds, removeLabelIds, results, remoteLabels,
                   relations, output, exitCode, disk, proc>>

\* Lines 323-332, 377-380: one resolution settles.  The first that rejects
\* rejects Promise.all and the catch of run() ends the command; when both have
\* succeeded createIssueRelation is called.  A resolution that settles after
\* the command has failed has no continuation.
RelationsResolveSettle(i) ==
    /\ cmd = "relations create"
    /\ pc \in {"resolving", "done"}
    /\ items[i].pc = "resolving"
    /\ \E o \in ResolveOutcomes(items[i].identifier) :
          /\ items' = [items EXCEPT ![i] =
                          IF o.ok THEN [@ EXCEPT !.pc = "resolved", !.id = Some(o.id)]
                          ELSE [@ EXCEPT !.pc = "done", !.fault = "resolve", !.thrown = Some(o.thrown)]]
          /\ IF pc = "done" THEN UNCHANGED <<pc, input, output, exitCode>>
             ELSE IF ~o.ok THEN HandleError(ThrownCode(o.thrown)) /\ UNCHANGED input
             ELSE IF BothResolved(items')
             THEN /\ input' = Some(RelationInput(items', flags.type))
                  /\ pc' = "creating"
                  /\ UNCHANGED <<output, exitCode>>
             ELSE UNCHANGED <<pc, input, output, exitCode>>
    /\ UNCHANGED <<cmd, flags, identifiers, addLabelIds, removeLabelIds, results, remoteLabels, relations,
                   disk, proc>>

\* Lines 328-336: createIssueRelation settles: it rejects, answers without
\* success or without a relation, or the service has created the relation.
RelationsCreateSettle ==
    /\ cmd = "relations create"
    /\ pc = "creating"
    /\ \/ /\ \E e \in Throwables : HandleError(ThrownCode(e))
          /\ UNCHANGED relations
       \/ /\ HandleError("API_ERROR")
          /\ UNCHANGED relations
       \/ /\ relations' = relations \cup {Get(input)}
          /\ pc' = "fetching"
          /\ UNCHANGED <<output, exitCode>>
    /\ UNCHANGED <<cmd, flags, input, identifiers, addLabelIds, removeLabelIds, items, results,
                   remoteLabels, disk, proc>>

\* Lines 338-376: the relation and its two issues are fetched and printed, or a
\* fetch rejects.
RelationsFetchSettle ==
    /\ cmd = "relations create"
    /\ pc = "fetching"
    /\ \/ \E e \in Throwables : HandleError(ThrownCode(e))
       \/ /\ output' = Some([kind |-> "relation", type |-> Get(input).type,
                              issue |-> Get(input).issueId, relatedIssue |-> Get(input).relatedIssueId])
          /\ pc' = "done"
          /\ UNCHANGED exitCode
    /\ UNCHANGED <<cmd, flags, input, identifiers, addLabelIds, removeLabelIds, items, results,
                   remoteLabels, relations, disk, proc>>

NextRelations ==
    \/ RelationsStart
    \/ \E i \in DOMAIN items : RelationsResolveSettle(i)
    \/ RelationsCreateSettle
    \/ RelationsFetchSettle

SpecRelations == InitRelations /\ [][NextRelations]_vars

\* ------------------------------------------------------------ config store
\* lib/config.ts.  A config value is a string, here one of three: the empty
\* string and two others.  A file's content is a sequence of JSON tokens.
ConfigValues == {"", "a", "b"}

\* CONFIG_KEYS, line 188.
CONFIG_KEYS == {"default-team-id", "default-team-key"}

\* What a user may type for a key.
KeyArgs == CONFIG_KEYS \cup {"teamId"}

IsValidConfigKey(key) == key \in CONFIG_KEYS

ConfigKeyToDefaultsKey(key) == IF key = "default-team-id" THEN "teamId" ELSE "teamKey"

\* ConfigDefaults and ConfigFile (lib/types.ts): every field is optional.
NoDefaults == [teamId |-> None, teamKey |-> None]
ConfigDefaultsSet == [teamId : Optional(ConfigValues), teamKey : Optional(ConfigValues)]
EmptyConfig == [apiKey |-> None, defaults |-> None, defaultTeamId |-> None]
ConfigFiles == [apiKey : Optional({"key"}), defaults : Optional(ConfigDefaultsSet),
                defaultTeamId : Optional(ConfigValues)]

\* JSON.stringify(config, null, 2): a field that is undefined is left out.
StringifyField(name, o) == IF IsSome(o) THEN <<name, Get(o)>> ELSE <<>>

Stringify(c) ==
    <<"{">> \o StringifyField("apiKey", c.apiKey)
        \o (IF IsSome(c.defaults)
            THEN <<"defaults", "{">> \o StringifyField("teamId", Get(c.defaults).teamId)
                    \o StringifyField("teamKey", Get(c.defaults).teamKey) \o <<"}">>
            ELSE <<>>)
        \o StringifyField("defaultTeamId", c.defaultTeamId) \o <<"}">>

\* JSON.parse(content): the config the text denotes, or a SyntaxError (None).
Parse(content) ==
    IF \E c \in ConfigFiles : Stringify(c) = content
    THEN Some(CHOOSE c \in ConfigFiles : Stringify(c) = content)
    ELSE None

\* readConfig(), lines 23-41: an absent file reads as {}; a file that does not
\* parse is a CONFIG_ERROR.
ReadConfig(file) ==
    IF ~IsSome(file) THEN [ok |-> TRUE, config |-> EmptyConfig]
    ELSE IF IsSome(Parse(Get(file))) THEN [ok |-> TRUE, config |-> Get(Parse(Get(file)))]
    ELSE [ok |-> FALSE, config |-> EmptyConfig]

\* A value that is present and not the empty string.
TruthyValue(o) == IsSome(o) /\ Get(o) # ""

\* getDefaults(), lines 122-134, of a config read: the legacy defaultTeamId
\* stands in for a teamId that is missing or empty, and the spread of
\* config.defaults puts back a teamId key that is there.
GetDefaults(c) ==
    IF TruthyValue(c.defaultTeamId) /\ ~(IsSome(c.defaults) /\ TruthyValue(Get(c.defaults).teamId))
    THEN [teamId |-> IF IsSome(c.defaults) /\ IsSome(Get(c.defaults).teamId)
                     THEN Get(c.defaults).teamId ELSE c.defaultTeamId,
          teamKey |-> IF IsSome(c.defaults) THEN Get(c.defaults).teamKey ELSE None]
    ELSE IF IsSome(c.defaults) THEN Get(c.defaults) ELSE NoDefaults

\* Mutant of SetDefault: a value that is falsy deletes the key (`if (!value)`
\* in place of `if (value === undefined)`).
SetDefaultFalsyDeletes(c, key, value) ==
    [c EXCEPT !.defaults = Some([(IF IsSome(c.defaults) THEN Get(c.defaults) ELSE NoDefaults)
                                    EXCEPT ![key] = IF value = Some("") THEN None ELSE value]),
              !.defaultTeamId = IF key = "teamId" /\ TruthyValue(c.defaultTeamId) THEN None ELSE @]

\* Mutant of SetDefault: the legacy field is left in the file.
SetDefaultKeepsLegacy(c, key, value) ==
    [c EXCEPT !.defaults = Some([(IF IsSome(c.defaults) THEN Get(c.defaults) ELSE NoDefaults)
                                    EXCEPT ![key] = value])]

\* setDefault(key, value), lines 157-174, on the config it has read.  The value
\* is a string or undefined (None), which deletes the key.
SetDefault(c, key, value) ==
    [c EXCEPT !.defaults = Some([(IF IsSome(c.defaults) THEN Get(c.defaults) ELSE NoDefaults)
                                    EXCEPT ![key] = value]),
              !.defaultTeamId = IF key = "teamId" /\ TruthyValue(c.defaultTeamId) THEN None ELSE @]

\* removeDefault(key), lines 181-183.
RemoveDefault(c, key) == SetDefault(c, key, None)

\* The config files a run may find: none; files written by this or an older
\* version of the program; a file that does not parse.
InitialConfigFiles ==
    {None, Some(<<"{">>)}
        \cup {Some(Stringify(c)) :
                c \in {EmptyConfig,
                       [EmptyConfig EXCEPT !.apiKey = Some("key"), !.defaultTeamId = Some("a")],
                       [EmptyConfig EXCEPT !.defaults = Some([teamId |-> Some("b"), teamKey |-> None])],
                       [EmptyConfig EXCEPT !.defaults = Some([teamId |-> None, teamKey |-> Some("a")]),
                                           !.defaultTeamId = Some("b")]}}

\* A shell in which config commands are run one after the other.
InitConfig ==
    /\ cmd = "none"
    /\ flags = [key |-> "", value |-> ""]
    /\ pc = "idle"
    /\ input = NoInput
    /\ identifiers = <<>>
    /\ addLabelIds = <<>>
    /\ removeLabelIds = <<>>
    /\ items = <<>>
    /\ results = <<>>
    /\ remoteLabels = [i \in IssueIds |-> <<>>]
    /\ relations = {}
    /\ output = None
    /\ exitCode = 0
    /\ \E f \in InitialConfigFiles : disk = [NoDisk EXCEPT !.config = f]
    /\ proc = [NoProc EXCEPT !.lastSet = [k \in CONFIG_KEYS |-> None]]

IssueVars == <<input, identifiers, addLabelIds, removeLabelIds, items, results, remoteLabels, relations>>

\* The user starts the next command.
ConfigCommand ==
    /\ pc \in {"idle", "done"}
    /\ proc.count < MaxCommands
    /\ \E c \in {"config set", "config get", "config list"}, k \in KeyArgs, v \in ConfigValues :
          /\ cmd' = c
          /\ flags' = [key |-> IF c = "config list" THEN "" ELSE k,
                       value |-> IF c = "config set" THEN v ELSE ""]
    /\ pc' = "start"
    /\ output' = None
    /\ exitCode' = 0
    /\ proc' = [proc EXCEPT !.count = @ + 1, !.config = None, !.prior = disk.config,
                             !.cleanup = "none"]
    /\ UNCHANGED <<disk, IssueVars>>

\* config set, lines 27-37, and setDefault up to its call of writeConfig.
ConfigSetStart ==
    /\ cmd = "config set"
    /\ pc = "start"
    /\ IF ~IsValidConfigKey(flags.key) THEN HandleError("INVALID_INPUT") /\ UNCHANGED proc
       ELSE IF ~ReadConfig(disk.config).ok THEN HandleError("CONFIG_ERROR") /\ UNCHANGED proc
       ELSE /\ proc' = [proc EXCEPT !.config = Some(SetDefault(ReadConfig(disk.config).config,
                                                             ConfigKeyToDefaultsKey(flags.key),
                                                             Some(flags.value)))]
            /\ pc' = "openTemp"
            /\ UNCHANGED <<output, exitCode>>
    /\ UNCHANGED <<cmd, flags, disk, IssueVars>>

\* Mutant of WriteConfigCatch: the unlink is outside any try, so that its
\* failure is what the command ends with.
WriteConfigCatchCleanupThrows ==
    \E unlinked \in BOOLEAN :
        /\ disk' = [disk EXCEPT !.temp = None,
                                !.stale = @ \/ (IsSome(disk.temp) /\ ~unlinked)]
        /\ proc' = [proc EXCEPT !.cleanup = IF ~IsSome(disk.temp) THEN "absent"
                                            ELSE IF unlinked THEN "removed" ELSE "failed"]
        /\ IF unlinked THEN HandleError("CONFIG_ERROR") ELSE HandleError("THROWN")

\* writeConfig, lines 55-65: the catch removes the temp file, if it can, and
\* throws CONFIG_ERROR.
WriteConfigCatch ==
    /\ \E unlinked \in BOOLEAN :
          /\ disk' = [disk EXCEPT !.temp = None,
                                  !.stale = @ \/ (IsSome(disk.temp) /\ ~unlinked)]
          /\ proc' = [proc EXCEPT !.cleanup = IF ~IsSome(disk.temp) THEN "absent"
                                              ELSE IF unlinked THEN "removed" ELSE "failed"]
    /\ HandleError("CONFIG_ERROR")

\* writeFileSync(tempFile, ...), line 53: the file is created empty, or the call fails.
ConfigWriteOpen ==
    /\ cmd = "config set"
    /\ pc = "openTemp"
    /\ \/ /\ disk' = [disk EXCEPT !.temp = Some(<<>>)]
          /\ pc' = "writeTemp"
          /\ UNCHANGED <<output, exitCode, proc>>
       \/ WriteConfigCatch
    /\ UNCHANGED <<cmd, flags, IssueVars>>

\* Mutant of ConfigWriteChunk: the text is written to config.json itself.
ConfigWriteChunkInPlace ==
    /\ cmd = "config set"
    /\ pc = "writeTemp"
    /\ Len(Get(disk.temp)) < Len(Stringify(Get(proc.config)))
    /\ \/ \E n \in (Len(Get(disk.temp)) + 1)..Len(Stringify(Get(proc.config))) :
             /\ disk' = [disk EXCEPT !.temp = Some(SubSeq(Stringify(Get(proc.config)), 1, n)),
                                     !.config = Some(SubSeq(Stringify(Get(proc.config)), 1, n))]
             /\ UNCHANGED <<pc, output, exitCode, proc>>
       \/ WriteConfigCatch
    /\ UNCHANGED <<cmd, flags, IssueVars>>

\* writeFileSync(tempFile, ...), line 53: some more of the text reaches the temp
\* file, or the call fails.
ConfigWriteChunk ==
    /\ cmd = "config set"
    /\ pc = "writeTemp"
    /\ Len(Get(disk.temp)) < Len(Stringify(Get(proc.config)))
    /\ \/ \E n \in (Len(Get(disk.temp)) + 1)..Len(Stringify(Get(proc.config))) :
             /\ disk' = [disk EXCEPT !.temp = Some(SubSeq(Stringify(Get(proc.config)), 1, n))]
             /\ UNCHANGED <<pc, output, exitCode, proc>>
       \/ WriteConfigCatch
    /\ UNCHANGED <<cmd, flags, IssueVars>>

\* renameSync(tempFile, CONFIG_FILE), line 54, and the print of config set,
\* lines 39-45; or the rename fails.
ConfigRename ==
    /\ cmd = "config set"
    /\ pc = "writeTemp"
    /\ Get(disk.temp) = Stringify(Get(proc.config))
    /\ \/ /\ disk' = [disk EXCEPT !.config = disk.temp, !.temp = None]
          /\ output' = Some([kind |-> "set", key |-> flags.key, value |-> flags.value])
          /\ pc' = "done"
          /\ proc' = [proc EXCEPT !.lastSet[flags.key] = Some(flags.value)]
          /\ UNCHANGED exitCode
       \/ WriteConfigCatch
    /\ UNCHANGED <<cmd, flags, IssueVars>>

\* The process is killed, or the machine stops, in the middle of writeConfig:
\* nothing is cleaned up.
ConfigCrash ==
    /\ cmd = "config set"
    /\ pc \in {"openTemp", "writeTemp"}
    /\ disk' = [disk EXCEPT !.temp = None, !.stale = @ \/ IsSome(disk.temp)]
    /\ pc' = "done"
    /\ exitCode' = 137
    /\ UNCHANGED <<cmd, flags, output, proc, IssueVars>>

\* config get, part_005 lines 131-157.
ConfigGetRun ==
    /\ cmd = "config get"
    /\ pc = "start"
    /\ IF ~IsValidConfigKey(flags.key) THEN HandleError("INVALID_INPUT")
       ELSE IF ~ReadConfig(disk.config).ok THEN HandleError("CONFIG_ERROR")
       ELSE /\ output' = Some([kind |-> "get", key |-> flags.key,
                               value |-> GetDefaults(ReadConfig(disk.config).config)[ConfigKeyToDefaultsKey(flags.key)],
                               isSet |-> IsSome(GetDefaults(ReadConfig(disk.config).config)[ConfigKeyToDefaultsKey(flags.key)])])
            /\ pc' = "done"
            /\ UNCHANGED exitCode
    /\ UNCHANGED <<cmd, flags, disk, proc, IssueVars>>

\* config list, list.ts lines 11-35.
ConfigListRun ==
    /\ cmd = "config list"
    /\ pc = "start"
    /\ IF ~ReadConfig(disk.config).ok THEN HandleError("CONFIG_ERROR")
       ELSE /\ output' = Some([kind |-> "list",
                               defaults |-> [k \in CONFIG_KEYS |->
                                    GetDefaults(ReadConfig(disk.config).config)[ConfigKeyToDefaultsKey(k)]]])
            /\ pc' = "done"
            /\ UNCHANGED exitCode
    /\ UNCHANGED <<cmd, flags, disk, proc, IssueVars>>

NextConfig ==
    \/ ConfigCommand
    \/ ConfigSetStart
    \/ ConfigWriteOpen
    \/ ConfigWriteChunk
    \/ ConfigRename
    \/ ConfigCrash
    \/ ConfigGetRun
    \/ ConfigListRun

SpecConfig == InitConfig /\ [][NextConfig]_vars

\* ------------------------------------------------- concurrent config writers
\* Two invocations of the program that run at the same time, each a process of
\* its own: a `config set`, and a `config set` of another key or a saveApiKey
\* or removeApiKey.  flags holds the operation of each process, proc its
\* locals (position, the config it read and changed, the name of its temp
\* file, whether it failed), disk the config file and the temp files by name.
Writers == {1, 2}

\* The names `config.json.tmp.${Date.now()}` can take while the two run: two
\* calls in the same millisecond get the same name.
TempNames == {"tmp.1", "tmp.2"}

\* saveApiKey(apiKey), lines 99-103, and removeApiKey(), lines 108-112, on the
\* config they have read.
SaveApiKey(c, apiKey) == [c EXCEPT !.apiKey = Some(apiKey)]
RemoveApiKey(c) == [c EXCEPT !.apiKey = None]

\* The operations of the two processes.
WriterOps ==
    {[kind |-> "setDefault", key |-> k, value |-> v] : k \in {"teamId", "teamKey"}, v \in {"a", "b"}}
        \cup {[kind |-> "saveApiKey", key |-> "apiKey", value |-> "key"],
              [kind |-> "removeApiKey", key |-> "apiKey", value |-> ""]}

\* The config an operation writes, given the config it read.
Changed(op, c) ==
    IF op.kind = "setDefault" THEN SetDefault(c, op.key, Some(op.value))
    ELSE IF op.kind = "saveApiKey" THEN SaveApiKey(c, op.value)
    ELSE RemoveApiKey(c)

InitWriters ==
    /\ cmd = "writers"
    /\ \E o1, o2 \in WriterOps :
          /\ o1.kind = "setDefault"
          /\ o1.key # o2.key
          /\ flags = [w \in Writers |-> IF w = 1 THEN o1 ELSE o2]
    /\ pc = "running"
    /\ input = NoInput
    /\ identifiers = <<>>
    /\ addLabelIds = <<>>
    /\ removeLabelIds = <<>>
    /\ items = <<>>
    /\ results = <<>>
    /\ remoteLabels = [i \in IssueIds |-> <<>>]
    /\ relations = {}
    /\ output = None
    /\ exitCode = 0
    /\ \E f \in InitialConfigFiles :
          /\ disk = [config |-> f, temps |-> [n \in TempNames |-> None]]
          /\ proc = [w \in Writers |-> [pc |-> "start", config |-> None, tempFile |-> "", failed |-> FALSE,
                                         prior |-> f]]

\* Every process has ended.
WritersDone(p) == \A w \in Writers : p[w].pc = "done"
WritersPc(p) == IF WritersDone(p) THEN "done" ELSE "running"

\* readConfig, the change in memory, and the choice of the temp file's name
\* (lines 23-41, 50, and 100-101, 109-110 or 158-173): one read of the disk.
WriterRead(w) ==
    /\ cmd = "writers"
    /\ proc[w].pc = "start"
    /\ IF ~ReadConfig(disk.config).ok
       THEN proc' = [proc EXCEPT ![w].pc = "done", ![w].failed = TRUE]
       ELSE \E n \in TempNames :
               proc' = [proc EXCEPT ![w].pc = "write",
                                    ![w].config = Some(Changed(flags[w], ReadConfig(disk.config).config)),
                                    ![w].tempFile = n]
    /\ pc' = WritersPc(proc')
    /\ UNCHANGED <<cmd, flags, disk, output, exitCode, IssueVars>>

\* writeFileSync(tempFile, ...), line 53: a file of that name is overwritten.
WriterWrite(w) ==
    /\ cmd = "writers"
    /\ proc[w].pc = "write"
    /\ disk' = [disk EXCEPT !.temps[proc[w].tempFile] = Some(Stringify(Get(proc[w].config)))]
    /\ proc' = [proc EXCEPT ![w].pc = "rename"]
    /\ UNCHANGED <<cmd, flags, pc, output, exitCode, IssueVars>>

\* renameSync(tempFile, CONFIG_FILE), line 54; when the temp file is gone the
\* call fails, the unlink of lines 56-60 fails too, and CONFIG_ERROR is thrown.
WriterRename(w) ==
    /\ cmd = "writers"
    /\ proc[w].pc = "rename"
    /\ IF IsSome(disk.temps[proc[w].tempFile])
       THEN /\ disk' = [disk EXCEPT !.config = disk.temps[proc[w].tempFile],
                                    !.temps[proc[w].tempFile] = None]
            /\ proc' = [proc EXCEPT ![w].pc = "done"]
       ELSE /\ proc' = [proc EXCEPT ![w].pc = "done", ![w].failed = TRUE]
            /\ UNCHANGED disk
    /\ pc' = WritersPc(proc')
    /\ UNCHANGED <<cmd, flags, output, exitCode, IssueVars>>

NextWriters ==
    \/ \E w \in Writers : WriterRead(w)
    \/ \E w \in Writers : WriterWrite(w)
    \/ \E w \in Writers : WriterRename(w)

SpecWriters == InitWriters /\ [][NextWriters]_vars

\* ------------------------------------------------- the defaults of lib/config
\* Calls of setDefault and removeDefault, one after the other, on the config
\* file a run finds; flags holds the arguments of the call.
DefaultsKeys == {"teamId", "teamKey"}

InitDefaults ==
    /\ cmd = "none"
    /\ flags = [key |-> "", value |-> None]
    /\ pc = "idle"
    /\ input = NoInput
    /\ identifiers = <<>>
    /\ addLabelIds = <<>>
    /\ removeLabelIds = <<>>
    /\ items = <<>>
    /\ results = <<>>
    /\ remoteLabels = [i \in IssueIds |-> <<>>]
    /\ relations = {}
    /\ output = None
    /\ exitCode = 0
    /\ \E f \in InitialConfigFiles : disk = [NoDisk EXCEPT !.config = f]
    /\ proc = NoProc

\* A caller calls setDefault(key, value) or removeDefault(key).
DefaultsCall ==
    /\ pc \in {"idle", "done"}
    /\ proc.count < MaxCommands
    /\ \E k \in DefaultsKeys :
          \/ /\ cmd' = "setDefault"
             /\ \E v \in ConfigValues : flags' = [key |-> k, value |-> Some(v)]
          \/ /\ cmd' = "removeDefault"
             /\ flags' = [key |-> k, value |-> None]
    /\ pc' = "start"
    /\ output' = None
    /\ exitCode' = 0
    /\ proc' = [proc EXCEPT !.count = @ + 1, !.prior = disk.config]
    /\ UNCHANGED <<disk, IssueVars>>

\* setDefault, lines 157-176 (removeDefault, lines 181-183): the file is read,
\* changed and written; a file that does not parse ends the call with
\* CONFIG_ERROR.
DefaultsRun ==
    /\ cmd \in {"setDefault", "removeDefault"}
    /\ pc = "start"
    /\ IF ~ReadConfig(disk.config).ok
       THEN HandleError("CONFIG_ERROR") /\ UNCHANGED disk
       ELSE /\ disk' = [disk EXCEPT !.config =
                            Some(Stringify(IF cmd = "setDefault"
                                           THEN SetDefault(ReadConfig(disk.config).config, flags.key,
                                                           flags.value)
                                           ELSE RemoveDefault(ReadConfig(disk.config).config, flags.key)))]
            /\ pc' = "done"
            /\ UNCHANGED <<output, exitCode>>
    /\ UNCHANGED <<cmd, flags, proc, IssueVars>>

NextDefaults ==
    \/ DefaultsCall
    \/ DefaultsRun

SpecDefaults == InitDefaults /\ [][NextDefaults]_vars

\* -------------------------------------------------------------------- setup
\* part_005 lines 1-109 (and updateClaudeMd of the post-install script,
\* part_012).  CLAUDE.md is a sequence of tokens: "S" the start marker, "E" the
\* end marker, "n" a newline, "t" any other text, "d" the text of the current
\* section between its markers.
ClaudeChars == {"S", "E", "n", "t"}

\* LINEAR_CLI_DOCS, lines 12-23.
LINEAR_CLI_DOCS == <<"S", "d", "E">>

\* The first position at or after `from` that holds ch, or 0.
IndexFrom(s, ch, from) ==
    IF \E i \in from..Len(s) : s[i] = ch
    THEN CHOOSE i \in from..Len(s) : s[i] = ch /\ \A j \in from..(i - 1) : s[j] # ch
    ELSE 0

\* The end of the first match of START[\s\S]*?END that begins at or after
\* `from`, or 0: the match begins at the first start marker and ends at the
\* first end marker after it.
SectionStart(s, from) == IndexFrom(s, "S", from)
SectionEnd(s, from) ==
    IF SectionStart(s, from) = 0 THEN 0 ELSE IndexFrom(s, "E", SectionStart(s, from) + 1)

\* content.replace(regex, LINEAR_CLI_DOCS), lines 80-81 (flag g).
RECURSIVE ReplaceSections(_, _)
ReplaceSections(s, from) ==
    IF SectionEnd(s, from) = 0 THEN SubSeq(s, from, Len(s))
    ELSE SubSeq(s, from, SectionStart(s, from) - 1) \o LINEAR_CLI_DOCS
            \o ReplaceSections(s, SectionEnd(s, from) + 1)

\* The first and last position of the first match of \n?START[\s\S]*?END\n?.
RemoveFirst(s, from) ==
    IF SectionStart(s, from) > from /\ s[SectionStart(s, from) - 1] = "n"
    THEN SectionStart(s, from) - 1 ELSE SectionStart(s, from)
RemoveLast(s, from) ==
    IF SectionEnd(s, from) < Len(s) /\ s[SectionEnd(s, from) + 1] = "n"
    THEN SectionEnd(s, from) + 1 ELSE SectionEnd(s, from)

\* content.replace(regex, '\n'), lines 65-66 (flag g).
RECURSIVE RemoveSections(_, _)
RemoveSections(s, from) ==
    IF SectionEnd(s, from) = 0 THEN SubSeq(s, from, Len(s))
    ELSE SubSeq(s, from, RemoveFirst(s, from) - 1) \o <<"n">>
            \o RemoveSections(s, RemoveLast(s, from) + 1)

\* String.prototype.trim() of a text whose only white space is the newline.
RECURSIVE TrimNewlines(_)
TrimNewlines(s) ==
    IF s = <<>> THEN s
    ELSE IF Head(s) = "n" THEN TrimNewlines(Tail(s))
    ELSE IF s[Len(s)] = "n" THEN TrimNewlines(SubSeq(s, 1, Len(s) - 1))
    ELSE s

\* content.endsWith('\n\n')
EndsWithBlankLine(s) == Len(s) >= 2 /\ s[Len(s)] = "n" /\ s[Len(s) - 1] = "n"

\* Lines 65-66: the content `setup --remove` writes.
RemovedContent(content) == TrimNewlines(RemoveSections(content, 1)) \o <<"n">>

\* Lines 79-94 (part_012 lines 109-115): the content `setup` writes.
SetupContent(content) ==
    IF Includes(content, "S") THEN ReplaceSections(content, 1)
    ELSE content \o (IF Len(content) > 0 /\ ~EndsWithBlankLine(content) THEN <<"n", "n">> ELSE <<>>)
            \o LINEAR_CLI_DOCS \o <<"n">>

\* A shell in which setup is run again and again on the CLAUDE.md it finds.
InitSetup ==
    /\ cmd = "none"
    /\ flags = [remove |-> FALSE]
    /\ pc = "idle"
    /\ input = NoInput
    /\ identifiers = <<>>
    /\ addLabelIds = <<>>
    /\ removeLabelIds = <<>>
    /\ items = <<>>
    /\ results = <<>>
    /\ remoteLabels = [i \in IssueIds |-> <<>>]
    /\ relations = {}
    /\ output = None
    /\ exitCode = 0
    /\ \E f \in Optional(Str(ClaudeChars, MaxClaudeLen)) : disk = [NoDisk EXCEPT !.claudeMd = f]
    /\ proc = NoProc

\* The user runs `linear setup` or `linear setup --remove`.
SetupCommand ==
    /\ pc \in {"idle", "done"}
    /\ proc.count < MaxCommands
    /\ cmd' = "setup"
    /\ \E r \in BOOLEAN : flags' = [remove |-> r]
    /\ pc' = "start"
    /\ output' = None
    /\ exitCode' = 0
    /\ proc' = [proc EXCEPT !.count = @ + 1, !.prior = disk.claudeMd]
    /\ UNCHANGED <<disk, IssueVars>>

\* The content read at lines 46-49: an absent file reads as the empty text.
ClaudeContent == IF IsSome(disk.claudeMd) THEN Get(disk.claudeMd) ELSE <<>>

SetupPrint(action) ==
    /\ output' = Some([kind |-> "setup", action |-> action])
    /\ pc' = "done"
    /\ UNCHANGED exitCode

\* Setup.run, lines 37-108; a call on the file system that fails ends the
\* command through handleError.
SetupRun ==
    /\ cmd = "setup"
    /\ pc = "start"
    /\ \/ /\ flags.remove /\ ~Includes(ClaudeContent, "S")
          /\ SetupPrint("none")
          /\ UNCHANGED disk
       \/ /\ flags.remove /\ Includes(ClaudeContent, "S")
          /\ disk' = [disk EXCEPT !.claudeMd = Some(RemovedContent(ClaudeContent))]
          /\ SetupPrint("removed")
       \/ /\ ~flags.remove /\ Includes(ClaudeContent, "S")
          /\ disk' = [disk EXCEPT !.claudeMd = Some(SetupContent(ClaudeContent))]
          /\ SetupPrint("updated")
       \/ /\ ~flags.remove /\ ~Includes(ClaudeContent, "S")
          /\ disk' = [disk EXCEPT !.claudeMd = Some(SetupContent(ClaudeContent))]
          /\ SetupPrint("added")
       \/ /\ HandleError("THROWN")
          /\ UNCHANGED disk
    /\ UNCHANGED <<cmd, flags, proc, IssueVars>>

\* The post-install script, part_012 lines 101-119 and 157-163: updateClaudeMd
\* when the user answers yes, reported as 'Added to CLAUDE.md'.
PostInstall ==
    /\ pc \in {"idle", "done"}
    /\ proc.count < MaxCommands
    /\ cmd' = "postinstall"
    /\ flags' = [remove |-> FALSE]
    /\ proc' = [proc EXCEPT !.count = @ + 1, !.prior = disk.claudeMd]
    /\ disk' = [disk EXCEPT !.claudeMd = Some(SetupContent(ClaudeContent))]
    /\ output' = Some([kind |-> "postinstall", action |-> "added"])
    /\ pc' = "done"
    /\ exitCode' = 0
    /\ UNCHANGED IssueVars

NextSetup ==
    \/ SetupCommand
    \/ SetupRun
    \/ PostInstall

SpecSetup == InitSetup /\ [][NextSetup]_vars

\* ------------------------------------------------------------- properties
BulkCmds == {"bulk-update", "bulk-label"}

SummaryPrinted == IsSome(output) /\ Get(output).kind = "summary"
ErrorPrinted == IsSome(output) /\ Get(output).kind = "error"

\* The positions of the results of item i in a results list.
ResultsOf(rs, i) == {k \in DOMAIN rs : rs[k].item = i}

\* The result of item i, when it has exactly one.
ResultOf(rs, i) == rs[CHOOSE k \in DOMAIN rs : rs[k].item = i]

\* C1: when a batch prints its summary, the results list holds exactly one
\* entry per input token, and successCount + failedCount = totalRequested =
\* len(results) = the number of tokens split from --ids.
C1_BatchComplete ==
    SummaryPrinted =>
        /\ identifiers = ParseList(Get(flags.ids))
        /\ Len(Get(output).results) = Len(identifiers)
        /\ \A i \in DOMAIN identifiers : Cardinality(ResultsOf(Get(output).results, i)) = 1
        /\ \A k \in DOMAIN Get(output).results : Get(output).results[k].item \in DOMAIN identifiers
        /\ Get(output).totalRequested = Len(identifiers)
        /\ Get(output).totalRequested = Len(Get(output).results)
        /\ Get(output).successCount + Get(output).failedCount = Get(output).totalRequested

\* A bulk-label summary of two tokens, the second finished first and succeeded,
\* the first failed.
C1_Witness ==
    /\ SummaryPrinted
    /\ cmd = "bulk-label"
    /\ Len(identifiers) = 2
    /\ Len(results) = 2
    /\ results[1].item = 2 /\ results[1].success
    /\ results[2].item = 1 /\ ~results[2].success

\* C2: a rejection inside the unit of work of one item makes only that item's
\* result a failure carrying the thrown message; every item that met no fault
\* and no refusal has a success result; and once the closures are running the
\* command never ends with an error.
C2_BatchIsolation ==
    /\ (cmd \in BulkCmds /\ items # <<>>) => (~ErrorPrinted /\ exitCode = 0)
    /\ SummaryPrinted =>
          \A i \in DOMAIN items :
              /\ Cardinality(ResultsOf(results, i)) = 1
              /\ items[i].fault # "none" =>
                    /\ ~ResultOf(results, i).success
                    /\ ResultOf(results, i).error
                          \in {Some(ErrMessage(e)) : e \in Throwables \cup ResolutionErrors}
              /\ (items[i].fault = "none" /\ ~items[i].refused) => ResultOf(results, i).success

\* A summary in which one item threw at its update call and another item, which
\* met no fault, succeeded.
C2_Witness ==
    /\ SummaryPrinted
    /\ \E i, j \in DOMAIN items :
          /\ i # j
          /\ items[i].fault = "update"
          /\ items[j].fault = "none" /\ ~items[j].refused
          /\ ResultOf(results, j).success
          /\ ~ResultOf(results, i).success

\* C3: a summary is printed only when every item is done and has its result.
C3_SummaryAfterAll ==
    SummaryPrinted =>
        \A i \in DOMAIN items : items[i].pc = "done" /\ ResultsOf(Get(output).results, i) # {}

\* A summary of two items whose results arrived in the reverse of input order.
C3_Witness ==
    /\ SummaryPrinted
    /\ Len(items) = 2
    /\ Get(output).results[1].item = 2
    /\ Get(output).results[2].item = 1


LabelCmds == {"bulk-label", "add-labels", "remove-labels"}

\* The label list an item sent to updateIssue.
SentLabels(it) == Get(Get(it.sent).labelIds)

\* An optional list read as a set: undefined is the empty set.
OptSet(o) == IF IsSome(o) THEN AsSet(Get(o)) ELSE {}

\* C4: the label set bulk-label sends to updateIssue is
\* (current - toRemove) \cup toAdd, so a label in both toAdd and toRemove is
\* in it.  The code sends (current - toRemove) \cup (toAdd - current).
C4_FinalSetAddWins ==
    \A i \in DOMAIN items :
        (cmd = "bulk-label" /\ IsSome(items[i].sent)) =>
            AsSet(SentLabels(items[i]))
                = (AsSet(items[i].existingLabelIds) \ AsSet(removeLabelIds)) \cup AsSet(addLabelIds)

\* C5: applying the same add/remove request to the label set the first
\* application stored yields that same set.
C5_ReconcileIdempotent ==
    \A i \in DOMAIN items :
        (cmd = "bulk-label" /\ IsSome(items[i].sent)) =>
            AsSet(NewLabelIds(Dedup(SentLabels(items[i])), addLabelIds, removeLabelIds))
                = AsSet(SentLabels(items[i]))

\* C6: every successful bulk-label result reports labelsAdded = toAdd - current
\* and labelsRemoved = toRemove \cap current, as sets, for the snapshot the item
\* read (an absent field is the empty set); add-labels prints
\* labelsAdded = new - existing and remove-labels labelsRemoved =
\* toRemove \cap existing.
C6_EffectiveDeltas ==
    /\ cmd = "bulk-label" =>
          \A k \in DOMAIN results :
              results[k].success =>
                  /\ OptSet(results[k].labelsAdded)
                        = AsSet(addLabelIds) \ AsSet(items[results[k].item].existingLabelIds)
                  /\ OptSet(results[k].labelsRemoved)
                        = AsSet(removeLabelIds) \cap AsSet(items[results[k].item].existingLabelIds)
    /\ (IsSome(output) /\ Get(output).kind = "item" /\ cmd = "add-labels") =>
          /\ IsSome(Get(output).labelsAdded)
          /\ AsSet(Get(Get(output).labelsAdded))
                = AsSet(ParseList(Get(flags.labelIds))) \ AsSet(items[1].existingLabelIds)
    /\ (IsSome(output) /\ Get(output).kind = "item" /\ cmd = "remove-labels") =>
          /\ IsSome(Get(output).labelsRemoved)
          /\ AsSet(Get(Get(output).labelsRemoved))
                = AsSet(ParseList(Get(flags.labelIds))) \cap AsSet(items[1].existingLabelIds)

\* A successful bulk-label result that reports some but not all of the requested
\* additions, one of them being on the issue already.
C6_Witness ==
    /\ cmd = "bulk-label"
    /\ \E k \in DOMAIN results :
          /\ results[k].success
          /\ IsSome(results[k].labelsAdded)
          /\ AsSet(Get(results[k].labelsAdded)) # AsSet(addLabelIds)
          /\ AsSet(addLabelIds) \cap AsSet(items[results[k].item].existingLabelIds) # {}

\* C7: no label list sent to updateIssue by bulk-label, add-labels or
\* remove-labels holds a label ID twice.
C7_NoDuplicateLabelsSent ==
    \A i \in DOMAIN items :
        (cmd \in LabelCmds /\ IsSome(items[i].sent)) => NoDuplicates(SentLabels(items[i]))

\* C8: the lists built from --ids, --add-labels, --remove-labels and
\* --label-ids hold each value at most once, so a repeated token yields one work
\* item and one result.
C8_InputsDeduplicated ==
    /\ NoDuplicates(identifiers)
    /\ NoDuplicates(addLabelIds)
    /\ NoDuplicates(removeLabelIds)
    /\ IsSome(input.labelIds) => NoDuplicates(Get(input.labelIds))
    /\ SummaryPrinted => Len(Get(output).results) = Cardinality(AsSet(ParseList(Get(flags.ids))))

\* The other flags of a bulk command pass its validation.
ValidFields ==
    \/ cmd = "bulk-update" /\ InputKeys(BuildInput(flags)) # {}
    \/ /\ cmd = "bulk-label"
       /\ ~NoLabelOperations(ParseOptionalList(flags.addLabels), ParseOptionalList(flags.removeLabels))

C11_IdentifierIsToken ==
    cmd \in BulkCmds =>
        \A k \in DOMAIN results : results[k].identifier = items[results[k].item].identifier

\* C11 amended: every failure result carries the input token of its item; every
\* success result carries the identifier the service reports for the issue the
\* token resolved to (in bulk-label, the token when the payload holds no
\* issue); and in a summary every item has exactly one result.
C11_IdentifierOfResult ==
    cmd \in BulkCmds =>
        /\ \A k \in DOMAIN results :
              /\ ~results[k].success => results[k].identifier = items[results[k].item].identifier
              /\ results[k].success =>
                    \/ results[k].identifier = IssueIdentifier(Get(items[results[k].item].id))
                    \/ /\ cmd = "bulk-label"
                       /\ results[k].identifier = items[results[k].item].identifier
        /\ SummaryPrinted =>
              \A i \in DOMAIN items : Cardinality(ResultsOf(Get(output).results, i)) = 1

\* A summary of two items given by opaque ID: one succeeded and is reported
\* under the issue's identifier, the other failed at its update call and is
\* reported under its token.
C11_Witness ==
    /\ SummaryPrinted
    /\ cmd = "bulk-update"
    /\ \E j, k \in DOMAIN results :
          /\ results[j].success
          /\ IsOpaqueId(items[results[j].item].identifier)
          /\ results[j].identifier # items[results[j].item].identifier
          /\ ~results[k].success
          /\ items[results[k].item].fault = "update"
          /\ results[k].identifier = items[results[k].item].identifier

\* The message an item's failed resolution left: in bulk-update on the item, in
\* bulk-label on its result.
ResolveMessage(i) ==
    IF cmd = "bulk-update" THEN items[i].error
    ELSE IF ResultsOf(results, i) # {} THEN ResultOf(results, i).error
    ELSE None

Resolved(it) == it.pc # "resolving"

\* C12: a token of the opaque-ID shape is resolved to itself, and its
\* resolution issues no lookup call and does not fail.
C12_FastPath ==
    \A i \in DOMAIN items :
        IsOpaqueId(items[i].identifier) =>
            /\ items[i].lookups = 0
            /\ items[i].fault # "resolve"
            /\ Resolved(items[i]) => items[i].id = Some(items[i].identifier)

\* A batch in which an opaque ID was resolved to itself next to a composite key
\* that was looked up, both updated with success.
C12_Witness ==
    /\ SummaryPrinted
    /\ \E i, j \in DOMAIN items :
          /\ IsOpaqueId(items[i].identifier)
          /\ items[i].id = Some(items[i].identifier)
          /\ ResultOf(results, i).success
          /\ IsCompositeKey(items[j].identifier)
          /\ items[j].lookups = 1
          /\ ResultOf(results, j).success

\* C13: the resolution of a composite key issues exactly one lookup call,
\* however it ends; it yields the ID the lookup answers with, and when no issue
\* has the key it fails, with NotFound unless the call itself was rejected.
C13_LookupOnce ==
    \A i \in DOMAIN items :
        (~IsOpaqueId(items[i].identifier) /\ IsCompositeKey(items[i].identifier)) =>
            /\ items[i].lookups = 1
            /\ IsSome(items[i].id) =>
                  items[i].id = LookupByComposite(KeyPrefix(items[i].identifier),
                                                  KeyNumber(items[i].identifier))
            /\ (Resolved(items[i]) /\ ~IsSome(items[i].id)) => items[i].fault = "resolve"
            /\ (Resolved(items[i]) /\ cmd \in BulkCmds
                    /\ ~IsSome(LookupByComposite(KeyPrefix(items[i].identifier),
                                                 KeyNumber(items[i].identifier)))) =>
                  /\ items[i].fault = "resolve"
                  /\ ResolveMessage(i) \in {Some("NotFound")} \cup {Some(ErrMessage(e)) : e \in Throwables}

\* A summary in which a key in lower case was resolved by one lookup and
\* updated, and a key of no issue failed with NotFound after one lookup.
C13_Witness ==
    /\ SummaryPrinted
    /\ \E i, j \in DOMAIN items :
          /\ items[i].identifier = <<"a", "-", "2">>
          /\ items[i].id = Some(<<"v">>)
          /\ items[i].lookups = 1
          /\ ResultOf(results, i).success
          /\ items[j].identifier = <<"A", "-", "3">>
          /\ items[j].lookups = 1
          /\ ResultOf(results, j).error = Some("NotFound")

\* C14: a token of neither shape issues no lookup call, gets no ID, and its
\* resolution fails with InvalidIdentifierFormat; in a batch this is the failure
\* result of that item, the command still prints its summary, and an item of
\* the same batch that met no fault itself succeeds.
C14_MalformedRejected ==
    /\ \A i \in DOMAIN items :
          (~IsOpaqueId(items[i].identifier) /\ ~IsCompositeKey(items[i].identifier)) =>
              /\ items[i].lookups = 0
              /\ ~IsSome(items[i].id)
              /\ items[i].sent = None
              /\ Resolved(items[i]) => items[i].fault = "resolve"
              /\ (Resolved(items[i]) /\ cmd \in BulkCmds) =>
                    ResolveMessage(i) = Some("InvalidIdentifierFormat")
              /\ (cmd \in BulkCmds /\ items[i].pc = "done") =>
                    /\ Cardinality(ResultsOf(results, i)) = 1
                    /\ ~ResultOf(results, i).success
                    /\ ResultOf(results, i).error = Some("InvalidIdentifierFormat")
                    /\ ResultOf(results, i).identifier = items[i].identifier
    /\ (cmd \in BulkCmds /\ items # <<>>) => ~ErrorPrinted
    /\ SummaryPrinted =>
          \A j \in DOMAIN items :
              (items[j].fault = "none" /\ ~items[j].refused) => ResultOf(results, j).success

\* A bulk-update summary of a malformed token, failed with
\* InvalidIdentifierFormat, and a composite key updated with success.
C14_Witness ==
    /\ SummaryPrinted
    /\ cmd = "bulk-update"
    /\ \E i, j \in DOMAIN items :
          /\ items[i].identifier = <<"A", "-">>
          /\ ResultOf(results, i).error = Some("InvalidIdentifierFormat")
          /\ items[i].lookups = 0
          /\ IsCompositeKey(items[j].identifier)
          /\ ResultOf(results, j).success

\* C16: in a batch a result has success = false exactly when it carries an error
\* message, which is never empty; every value thrown inside an item is on that
\* item's result as a message, the message of an Error and 'Unknown error' for
\* any other value; and the command does not end with an error of its own.
C16_ErrorCaptured ==
    cmd \in BulkCmds =>
        /\ \A k \in DOMAIN results :
              /\ results[k].success <=> results[k].error = None
              /\ ~results[k].success => (IsSome(results[k].error) /\ Get(results[k].error) # "")
        /\ \A i \in DOMAIN items :
              (items[i].fault # "none" /\ items[i].pc = "done") =>
                  /\ IsSome(items[i].thrown)
                  /\ Cardinality(ResultsOf(results, i)) = 1
                  /\ ~ResultOf(results, i).success
                  /\ Get(items[i].thrown).isError =>
                        ResultOf(results, i).error = Some(Get(items[i].thrown).message)
                  /\ ~Get(items[i].thrown).isError =>
                        ResultOf(results, i).error = Some("Unknown error")
        /\ items # <<>> => ~ErrorPrinted

\* A summary in which one item's call rejected with a value that is no Error and
\* is reported as 'Unknown error', and another item's with an Error.
C16_Witness ==
    /\ SummaryPrinted
    /\ \E i, j \in DOMAIN items :
          /\ IsSome(items[i].thrown) /\ ~Get(items[i].thrown).isError
          /\ ResultOf(results, i).error = Some("Unknown error")
          /\ IsSome(items[j].thrown) /\ Get(items[j].thrown).isError
          /\ ResultOf(results, j).error = Some("boom")

\* C17: an item whose updateIssue call answered with a payload that reports
\* failure has a failure result and is not counted in successCount.
C17_RemoteFailureReported ==
    cmd \in BulkCmds =>
        \A k \in DOMAIN results :
            items[results[k].item].payload = Some(FALSE) => ~results[k].success

\* The closure of an item awaits a call of its own.
InFlight(it) == it.pc \in {"resolving", "fetchIssue", "fetchLabels", "updating", "awaitIssue"}

\* A batch is running.
BatchStarted == cmd \in BulkCmds /\ items # <<>>

\* No item is ended from outside: an item that is done has exactly one result,
\* and a failure only when a call of its own rejected or was refused.
NoItemCancelled ==
    BatchStarted =>
        \A i \in DOMAIN items :
            items[i].pc = "done" =>
                /\ Cardinality(ResultsOf(results, i)) = 1
                /\ (items[i].fault = "none" /\ ~items[i].refused) => ResultOf(results, i).success

\* C18 as stated: when every call settles at some time a batch prints its
\* summary, no item is timed out or cancelled, and an item never waits for
\* another item: until it is done it has a call of its own in flight.
C18_SlowItemDelaysOnlyReturn ==
    /\ BatchStarted ~> SummaryPrinted
    /\ [](NoItemCancelled)
    /\ [](BatchStarted => \A i \in DOMAIN items : items[i].pc # "done" => InFlight(items[i]))

\* C18 amended: when every call settles at some time a batch prints its
\* summary and no item is timed out or cancelled.  In bulk-label an item never
\* waits for another item.  In bulk-update an item whose token is resolved waits
\* for the end of the resolve phase, and for nothing else: no update call is
\* issued before that, and within the update phase no item waits.
C18_BatchTerminates ==
    /\ BatchStarted ~> SummaryPrinted
    /\ [](NoItemCancelled)
    /\ [](BatchStarted =>
            \A i \in DOMAIN items :
                items[i].pc # "done" =>
                    \/ InFlight(items[i])
                    \/ /\ cmd = "bulk-update"
                       /\ pc = "resolvePhase"
                       /\ items[i].pc = "resolved")
    /\ []((cmd = "bulk-update" /\ pc = "resolvePhase") => \A i \in DOMAIN items : items[i].sent = None)

\* The summary of a bulk-update batch of two items: the second had its result
\* while the update call of the first was still in flight.
C18_Witness ==
    /\ SummaryPrinted
    /\ cmd = "bulk-update"
    /\ Len(items) = 2
    /\ results[1].item = 2 /\ results[1].success
    /\ results[2].item = 1 /\ items[1].fault = "update"

\* C15: at every point of a `config set`, whether it completes, fails or is
\* killed between any two steps of writeConfig, config.json holds the complete
\* content it had when the command started or the complete new text, and a
\* reader gets the config one of the two denotes; when the command has ended
\* without printing its success the file is as it was, and when it has
\* printed it the file is the new text.
C15_ConfigAtomic ==
    (cmd = "config set" /\ pc # "start") =>
        /\ \/ disk.config = proc.prior
           \/ IsSome(proc.config) /\ disk.config = Some(Stringify(Get(proc.config)))
        /\ \/ ReadConfig(disk.config) = ReadConfig(proc.prior)
           \/ IsSome(proc.config) /\ ReadConfig(disk.config) = [ok |-> TRUE, config |-> Get(proc.config)]
        /\ (pc = "done" /\ ~(IsSome(output) /\ Get(output).kind = "set")) => disk.config = proc.prior
        /\ (IsSome(output) /\ Get(output).kind = "set") =>
              disk.config = Some(Stringify(Get(proc.config)))

\* A `config set` was killed after it had written part of its temp file: the
\* temp file is left behind and config.json, which the command was about to
\* change, is as before.
C15_Witness ==
    /\ cmd = "config set"
    /\ pc = "done"
    /\ exitCode = 137
    /\ disk.stale
    /\ IsSome(proc.config)
    /\ IsSome(proc.prior)
    /\ proc.prior # Some(Stringify(Get(proc.config)))
    /\ disk.config = proc.prior

\* C19: once `config set K V` has printed its success for a valid key K,
\* `config get K` prints V with isSet = true and `config list` shows V for K,
\* until K is set again; `config set` with any other key ends with
\* INVALID_INPUT and exit code 1 and leaves config.json as it was.
C19_ConfigRoundTrip ==
    /\ (cmd = "config get" /\ IsSome(output) /\ Get(output).kind = "get"
            /\ IsSome(proc.lastSet[flags.key])) =>
          /\ Get(output).value = proc.lastSet[flags.key]
          /\ Get(output).isSet
    /\ (cmd = "config list" /\ IsSome(output) /\ Get(output).kind = "list") =>
          \A k \in CONFIG_KEYS :
              IsSome(proc.lastSet[k]) => Get(output).defaults[k] = proc.lastSet[k]
    /\ (cmd = "config set" /\ pc # "start" /\ ~IsValidConfigKey(flags.key)) =>
          /\ ErrorPrinted
          /\ Get(output).code = "INVALID_INPUT"
          /\ exitCode = 1
          /\ disk.config = proc.prior
          /\ disk.temp = None

\* `config get` of a key prints the empty string that was set for it, after
\* the other key was set in between.
C19_Witness ==
    /\ cmd = "config get"
    /\ IsSome(output)
    /\ Get(output).kind = "get"
    /\ proc.lastSet[flags.key] = Some("")
    /\ Get(output).value = Some("")
    /\ Get(output).isSet
    /\ \E k \in CONFIG_KEYS : k # flags.key /\ IsSome(proc.lastSet[k])

\* The sections of a text: the matches of START[\s\S]*?END from `from` on.
RECURSIVE NumSections(_, _)
NumSections(s, from) ==
    IF SectionEnd(s, from) = 0 THEN 0 ELSE 1 + NumSections(s, SectionEnd(s, from) + 1)

\* The places of a text where the current section stands.
DocsAt(s) ==
    {i \in 1..(Len(s) - Len(LINEAR_CLI_DOCS) + 1) :
        SubSeq(s, i, i + Len(LINEAR_CLI_DOCS) - 1) = LINEAR_CLI_DOCS}

SetupPrinted(actions) ==
    IsSome(output) /\ Get(output).kind = "setup" /\ Get(output).action \in actions

\* C20: whatever CLAUDE.md held at first, after every run of `setup` or
\* `setup --remove` the file holds the section at most once; after a run that
\* printed 'added' or 'updated' it holds the current section exactly once and
\* one more `setup` would not change it; after a run that printed 'removed' it
\* holds no start marker.
C20_SectionManaged ==
    (cmd = "setup" /\ pc = "done" /\ IsSome(output) /\ Get(output).kind = "setup") =>
        /\ NumSections(ClaudeContent, 1) <= 1
        /\ SetupPrinted({"added", "updated"}) =>
              /\ Cardinality(DocsAt(ClaudeContent)) = 1
              /\ NumSections(ClaudeContent, 1) = 1
              /\ SetupContent(ClaudeContent) = ClaudeContent
        /\ SetupPrinted({"removed"}) => ~Includes(ClaudeContent, "S")

\* The reads an item makes before its update call all answered: its resolution
\* and, in bulk-label, client.issue and issue.labels().
ReadsSucceeded(it) ==
    /\ it.fault \notin {"resolve", "issue", "labels"}
    /\ ~(cmd = "bulk-label" /\ it.refused /\ it.payload = None)

\* C21: in a batch no item issues more than one updateIssue call, at any time;
\* an item that is done has issued exactly one when its resolution (and, in
\* bulk-label, its issue and label fetch) succeeded and none otherwise; and the
\* call of an item that has its result, failure or success, is not sent again.
C21_NoDoubleApplication ==
    cmd \in BulkCmds =>
        \A i \in DOMAIN items :
            /\ items[i].updates <= 1
            /\ items[i].updates = 1 <=> IsSome(items[i].sent)
            /\ items[i].pc = "done" =>
                  /\ ReadsSucceeded(items[i]) => items[i].updates = 1
                  /\ ~ReadsSucceeded(items[i]) => items[i].updates = 0
            /\ (cmd = "bulk-update" /\ pc = "updatePhase" /\ ~Unresolved(items[i])) =>
                  items[i].updates = 1

\* A summary of two items that name the same issue: the update call of one
\* rejected, the other's succeeded, and each was sent once.
C21_Witness ==
    /\ SummaryPrinted
    /\ \E i, j \in DOMAIN items :
          /\ i # j
          /\ items[i].id = items[j].id
          /\ items[i].fault = "update" /\ items[i].updates = 1
          /\ ResultOf(results, j).success /\ items[j].updates = 1

\* C22: the label set add-labels sends for --label-ids L is the set bulk-label
\* computes for --add-labels L on the same snapshot, and the set bulk-label
\* sends for --add-labels L alone is the set add-labels computes for
\* --label-ids L; the same for remove-labels and --remove-labels.
C22_SingleMatchesBulk ==
    /\ (cmd = "add-labels" /\ items # <<>> /\ IsSome(items[1].sent)) =>
          AsSet(SentLabels(items[1]))
            = AsSet(NewLabelIds(items[1].existingLabelIds, ParseOptionalList(flags.labelIds),
                                ParseOptionalList(None)))
    /\ (cmd = "remove-labels" /\ items # <<>> /\ IsSome(items[1].sent)) =>
          AsSet(SentLabels(items[1]))
            = AsSet(NewLabelIds(items[1].existingLabelIds, ParseOptionalList(None),
                                ParseOptionalList(flags.labelIds)))
    /\ cmd = "bulk-label" =>
          \A i \in DOMAIN items :
              /\ (IsSome(items[i].sent) /\ flags.removeLabels = None) =>
                    AsSet(SentLabels(items[i]))
                        = AsSet(CombinedLabelIds(items[i].existingLabelIds, ParseList(Get(flags.addLabels))))
              /\ (IsSome(items[i].sent) /\ flags.addLabels = None) =>
                    AsSet(SentLabels(items[i]))
                        = AsSet(RemainingLabelIds(items[i].existingLabelIds,
                                                  ParseList(Get(flags.removeLabels))))

\* add-labels printed its item after it sent a list that differs, as a list,
\* from the one bulk-label computes: the flag names a new label twice and a
\* label the issue has.
C22_Witness ==
    /\ cmd = "add-labels"
    /\ IsSome(output) /\ Get(output).kind = "item"
    /\ items[1].existingLabelIds # <<>>
    /\ AsSet(ParseList(Get(flags.labelIds))) \cap AsSet(items[1].existingLabelIds) # {}
    /\ SentLabels(items[1])
            # NewLabelIds(items[1].existingLabelIds, ParseList(Get(flags.labelIds)), <<>>)

\* C23: in bulk-update an item whose resolution failed issues no updateIssue
\* call; once the update closures have started it is done with exactly one
\* result, a failure under its token that carries the message of the resolution
\* error (or 'Failed to resolve issue ID' when there is none); and every other
\* item of the batch has issued its update call.
C23_UnresolvedNotUpdated ==
    cmd = "bulk-update" =>
        \A i \in DOMAIN items :
            (items[i].pc # "resolving" /\ (items[i].fault = "resolve" \/ ~IsSome(items[i].id))) =>
                /\ items[i].updates = 0
                /\ items[i].sent = None
                /\ items[i].payload = None
                /\ pc # "resolvePhase" =>
                      /\ items[i].pc = "done"
                      /\ Cardinality(ResultsOf(results, i)) = 1
                      /\ ~ResultOf(results, i).success
                      /\ ResultOf(results, i).identifier = items[i].identifier
                      /\ ResultOf(results, i).error
                            = (IF IsSome(items[i].error) THEN items[i].error
                               ELSE Some("Failed to resolve issue ID"))
                      /\ IsSome(items[i].thrown) =>
                            ResultOf(results, i).error = Some(ErrMessage(Get(items[i].thrown)))
                      /\ \A j \in DOMAIN items :
                            (items[j].fault # "resolve" /\ IsSome(items[j].id)) => items[j].updates = 1

\* A bulk-update summary in which the lookup of the first token rejected with a
\* value that is no Error, and the update of the second token was issued and
\* succeeded.
C23_Witness ==
    /\ SummaryPrinted
    /\ cmd = "bulk-update"
    /\ Len(items) = 2
    /\ items[1].fault = "resolve"
    /\ items[1].thrown = Some([isError |-> FALSE, message |-> ""])
    /\ ResultOf(results, 1).error = Some("Unknown error")
    /\ items[1].updates = 0
    /\ items[2].updates = 1
    /\ ResultOf(results, 2).success

\* An update call of item i has been issued.
UpdateIssued(it) == it.updates > 0 \/ IsSome(it.sent) \/ it.pc \in {"updating", "awaitIssue"}

\* C24: in bulk-update no updateIssue call is issued while the resolution of
\* any token of the batch is unsettled; the step that issues update calls is
\* taken when every resolution has settled, and after it no resolution is in
\* flight; and within a phase the call an item awaits can settle whatever the
\* other items are doing.
C24_TwoPhaseOrdering ==
    /\ [](cmd = "bulk-update" =>
            /\ (\E i \in DOMAIN items : UpdateIssued(items[i])) =>
                  (pc # "resolvePhase" /\ \A j \in DOMAIN items : items[j].pc \notin {"resolving", "resolved"})
            /\ pc = "resolvePhase" =>
                  \A j \in DOMAIN items : items[j].pc \in {"resolving", "resolved"})
    /\ [][(cmd = "bulk-update" /\ DOMAIN items' = DOMAIN items
                /\ \E i \in DOMAIN items : items'[i].updates > items[i].updates)
                => \A j \in DOMAIN items : items[j].pc = "resolved"]_vars
    /\ [](cmd = "bulk-update" =>
            \A i \in DOMAIN items :
                /\ (pc = "resolvePhase" /\ items[i].pc = "resolving") => ENABLED BulkUpdateResolveSettle(i)
                /\ (pc = "updatePhase" /\ items[i].pc = "updating") => ENABLED BulkUpdateUpdateSettle(i)
                /\ (pc = "updatePhase" /\ items[i].pc = "awaitIssue") => ENABLED BulkUpdateIssueSettle(i))

\* The update phase of a batch of two composite keys, both looked up: the second
\* item has its success result while the update call of the first is in flight.
C24_Witness ==
    /\ cmd = "bulk-update"
    /\ pc = "updatePhase"
    /\ Len(items) = 2
    /\ items[1].lookups = 1 /\ items[2].lookups = 1
    /\ items[1].pc = "updating"
    /\ items[2].pc = "done"
    /\ Len(results) = 1
    /\ results[1].item = 2
    /\ results[1].success

\* The label list the service holds after the request of a bulk-label batch was
\* applied to the list l by one item, and by two items one after the other.
AppliedOnce(l) == Dedup(NewLabelIds(l, addLabelIds, removeLabelIds))
AppliedTwice(l) == AppliedOnce(AppliedOnce(l))

\* The results that report label l as added, and as removed.
ReportedAdded(l) == {k \in DOMAIN results : l \in OptSet(results[k].labelsAdded)}
ReportedRemoved(l) == {k \in DOMAIN results : l \in OptSet(results[k].labelsRemoved)}

\* C25: when the two tokens of a bulk-label batch name the same issue and both
\* items succeeded, every label the batch added to the issue is in labelsAdded
\* of exactly one result, every label it removed is in labelsRemoved of exactly
\* one result, and the issue holds the labels it would hold had the two items
\* run one after the other.
C25_SameIssueSerializable ==
    (/\ SummaryPrinted
     /\ cmd = "bulk-label"
     /\ Len(items) = 2
     /\ IsSome(items[1].id)
     /\ items[1].id = items[2].id
     /\ \A k \in DOMAIN results : results[k].success) =>
        /\ \A l \in AsSet(remoteLabels[Get(items[1].id)]) \ AsSet(BatchLabels[Get(items[1].id)]) :
              Cardinality(ReportedAdded(l)) = 1
        /\ \A l \in AsSet(BatchLabels[Get(items[1].id)]) \ AsSet(remoteLabels[Get(items[1].id)]) :
              Cardinality(ReportedRemoved(l)) = 1
        /\ AsSet(remoteLabels[Get(items[1].id)]) = AsSet(AppliedTwice(BatchLabels[Get(items[1].id)]))

\* The labels a command was asked to add and to remove.
RequestedAdd ==
    IF cmd = "bulk-label" THEN AsSet(addLabelIds)
    ELSE IF cmd = "add-labels" THEN AsSet(ParseList(Get(flags.labelIds)))
    ELSE {}
RequestedRemove ==
    IF cmd = "bulk-label" THEN AsSet(removeLabelIds)
    ELSE IF cmd = "remove-labels" THEN AsSet(ParseList(Get(flags.labelIds)))
    ELSE {}

\* C26: the label list bulk-label, add-labels or remove-labels sends holds every
\* label of the snapshot the item read that was not requested for removal, and
\* no label outside the snapshot and the requested additions; a label the
\* request does not name is in the list exactly when it is in the snapshot.
C26_LabelFrame ==
    cmd \in LabelCmds =>
        \A i \in DOMAIN items :
            IsSome(items[i].sent) =>
                /\ (AsSet(items[i].existingLabelIds) \ RequestedRemove) \subseteq AsSet(SentLabels(items[i]))
                /\ AsSet(SentLabels(items[i])) \subseteq (AsSet(items[i].existingLabelIds) \cup RequestedAdd)
                /\ \A l \in (AsSet(items[i].existingLabelIds) \cup AsSet(SentLabels(items[i])))
                                \ (RequestedAdd \cup RequestedRemove) :
                      l \in AsSet(SentLabels(items[i])) <=> l \in AsSet(items[i].existingLabelIds)

\* A bulk-label item succeeded on an issue with two labels: the request removed
\* one, added a new one, and the label it does not name was sent again.
C26_Witness ==
    /\ cmd = "bulk-label"
    /\ \E k \in DOMAIN results :
          /\ results[k].success
          /\ IsSome(results[k].labelsRemoved)
          /\ IsSome(results[k].labelsAdded)
          /\ \E l \in AsSet(items[results[k].item].existingLabelIds) \ (RequestedAdd \cup RequestedRemove) :
                l \in AsSet(SentLabels(items[results[k].item]))

\* The change of an operation is in a config.
ChangePresent(op, c) ==
    IF op.kind = "setDefault" THEN IsSome(c.defaults) /\ Get(c.defaults)[op.key] = Some(op.value)
    ELSE IF op.kind = "saveApiKey" THEN c.apiKey = Some(op.value)
    ELSE c.apiKey = None

\* C27: when two writers of config.json that change different keys have both
\* ended, on a file that could be read at first, neither has failed and the
\* file holds the change of each.
C27_NoLostUpdate ==
    (cmd = "writers" /\ pc = "done" /\ ReadConfig(proc[1].prior).ok) =>
        /\ \A w \in Writers : ~proc[w].failed
        /\ ReadConfig(disk.config).ok
        /\ \A w \in Writers : ChangePresent(flags[w], ReadConfig(disk.config).config)

\* The catch of writeConfig has run in the command that has ended.
WriteFailed == cmd = "config set" /\ pc = "done" /\ proc.cleanup # "none"

\* C28: when a write or the rename of writeConfig has failed, the command ends
\* with CONFIG_ERROR and exit code 1, whatever the unlink of the temp file did;
\* config.json is as it was when the command started; and the step that fails
\* leaves config.json alone, removes the temp file when there is one and the
\* unlink succeeds, and leaves a file behind only when the unlink fails.
C28_WriteFailureUnchanged ==
    /\ [](WriteFailed =>
            /\ ErrorPrinted
            /\ Get(output).code = "CONFIG_ERROR"
            /\ exitCode = 1
            /\ disk.config = proc.prior
            /\ disk.temp = None
            /\ ReadConfig(disk.config) = ReadConfig(proc.prior))
    /\ [][(cmd = "config set" /\ proc.cleanup = "none" /\ proc'.cleanup # "none") =>
            /\ disk'.config = disk.config
            /\ proc'.cleanup = "absent" <=> disk.temp = None
            /\ proc'.cleanup \in {"absent", "removed"} => disk'.stale = disk.stale
            /\ proc'.cleanup = "failed" => disk'.stale]_vars

\* The rename of a `config set` failed and so did the unlink of the complete
\* temp file: the command ended with CONFIG_ERROR and config.json, which it
\* was about to change, is as before.
C28_Witness ==
    /\ WriteFailed
    /\ proc.cleanup = "failed"
    /\ ErrorPrinted
    /\ Get(output).code = "CONFIG_ERROR"
    /\ IsSome(proc.prior)
    /\ proc.prior # Some(Stringify(Get(proc.config)))
    /\ disk.config = proc.prior
    /\ disk.stale

\* The config a file denotes, and the teamId stored under `defaults`.
ConfigOf(file) == ReadConfig(file).config
StoredTeamId(c) == IF IsSome(c.defaults) THEN Get(c.defaults).teamId ELSE None

\* A call of setDefault or removeDefault has returned.
DefaultsReturned == cmd \in {"setDefault", "removeDefault"} /\ pc = "done" /\ ~ErrorPrinted

C30_RelationAllOrNothing ==
    cmd = "relations create" =>
        /\ (IsSome(input) \/ relations # {} \/ pc \in {"creating", "fetching"}) =>
              /\ \A i \in DOMAIN items :
                    items[i].pc = "resolved" /\ IsSome(items[i].id) /\ items[i].fault = "none"
              /\ input = Some(RelationInput(items, flags.type))
        /\ (\E i \in DOMAIN items : items[i].fault = "resolve") =>
              /\ input = None
              /\ relations = {}
              /\ pc = "done"
              /\ ErrorPrinted
              /\ exitCode = 1
        /\ IF items = <<>> THEN relations = {}
           ELSE relations \subseteq {RelationInput(items, flags.type)}
        /\ (IsSome(output) /\ Get(output).kind = "relation") => (relations # {} /\ exitCode = 0)

\* The command has failed because the key of the related issue names no issue;
\* the lookup of the first issue, still in flight then, has answered since, and
\* no relation was created.
C30_Witness ==
    /\ cmd = "relations create"
    /\ pc = "done"
    /\ ErrorPrinted
    /\ exitCode = 1
    /\ Len(items) = 2
    /\ items[1].lookups = 1 /\ items[1].pc = "resolved" /\ IsSome(items[1].id)
    /\ items[2].fault = "resolve" /\ items[2].thrown = Some(ResolutionError("NotFound"))
    /\ input = None
    /\ relations = {}

====
